---------------------------- MODULE Spec2Model ----------------------------
(***************************************************************************)
(* Model of the Gemini batch worker (src/worker/rp_handler.py):            *)
(*   - the request key built by the packer and decoded by the collector,   *)
(*   - handle_automatic_batch_mode (packing into chunks, flush_chunk),     *)
(*   - handle_fetch_results_mode (collection, upload, de-duplication),     *)
(*   - handle_cleanup_group (storage and remote cleanup, purge guard).     *)
(* Strings the code inspects (keys, ratios) are sequences of one-character *)
(* strings, so that formatting, replacing and matching are computed.       *)
(***************************************************************************)
EXTENDS Integers, Sequences, FiniteSets, TLC

(***************************************************************************)
(* Bounds of the model.                                                    *)
(***************************************************************************)
MaxKeyIndex == 10
MaxRatioTerm == 3
MaxImages == 2
MaxPrompts == 2
MaxRatios == 2
MaxVariations == 2
MaxLineBudget == 3
SmallImageBytes == 2
BigImageBytes == 30
SmallBudget == 45
LargeBudget == 70
MaxSoftFaults == 1
MaxPreuploaded == 2
MaxRequestLines == 4
MaxJobIds == 2
MaxHandles == 2
MaxFetchJobs == 2
MaxFetchLines == 2
\* images and prompts of a submission whose slots are followed one by one
MaxSlotImages == 3
MaxSlotPrompts == 5
\* images handed to handle_automatic_mode_batch
MaxUploadImages == 11

\* attempts and delay (in half seconds) given to http_get_with_retry
MaxAttempts == 3
MaxDelay == 3

\* pieces a prompt template is put together from
MaxPieces == 3

\* chunks of a response stream and parts of a chunk
MaxChunks == 2
MaxParts == 2

\* generated images written before a folder is listed, the indexes that
\* go into their names, the millisecond timestamps
MaxOutputs == 2
MaxNameIndex == 1
MaxStamp == 2

\* rp_handler.py line 1367: attempts=2 in the call of stream_jsonl_with_retry
stream_attempts == 2

\* batch_handler.py line 87
max_concurrent == 10

(***************************************************************************)
(* Text helpers: str(int), int(str), str.replace on character sequences.   *)
(***************************************************************************)
Digit == <<"0", "1", "2", "3", "4", "5", "6", "7", "8", "9">>

IsDigit(c) == \E d \in 1..Len(Digit) : Digit[d] = c

DigitVal(c) == (CHOOSE d \in 1..Len(Digit) : Digit[d] = c) - 1

\* str(n): the decimal digits of a natural number
Str(n) ==
  LET digits[m \in 0..n] ==
        IF m < Len(Digit) THEN <<Digit[m + 1]>>
        ELSE digits[m \div Len(Digit)] \o <<Digit[(m % Len(Digit)) + 1]>>
  IN  digits[n]

\* int(s) of a string of decimal digits
ParseInt(s) ==
  LET value[k \in 0..Len(s)] ==
        IF k = 0 THEN 0 ELSE value[k - 1] * Len(Digit) + DigitVal(s[k])
  IN  value[Len(s)]

Replace(s, a, b) == [k \in 1..Len(s) |-> IF s[k] = a THEN b ELSE s[k]]

Range(xs) == {xs[k] : k \in 1..Len(xs)}

\* an aspect-ratio string "a:b"
RatioStr(a, b) == Str(a) \o <<":">> \o Str(b)

(***************************************************************************)
(* The request key: built in handle_automatic_batch_mode, decoded in       *)
(* extract_images_from_batch_line.                                         *)
(***************************************************************************)
RatioSlug(ratio) == Replace(ratio, ":", "x")

BuildKey(ratio, prompt_idx, image_index, var) ==
  <<"r">> \o RatioSlug(ratio) \o <<"_", "p">> \o Str(prompt_idx)
    \o <<"_", "i", "m", "g">> \o Str(image_index)
    \o <<"_", "v", "a", "r">> \o Str(var)

\* character classes of the pattern r([0-9x]+)_p(\d+)_img(\d+)_var(\d+)
InSlugClass(c) == IsDigit(c) \/ c = "x"

\* length of the longest run of characters of a class starting at position k
RunLen(s, k, slug) ==
  LET stops == {j \in k..(Len(s) + 1) :
                  j > Len(s) \/ ~(IF slug THEN InSlugClass(s[j]) ELSE IsDigit(s[j]))}
  IN  IF k > Len(s) THEN 0
      ELSE (CHOOSE j \in stops : \A i \in stops : j <= i) - k

LitAt(s, k, lit) ==
  /\ k + Len(lit) - 1 <= Len(s)
  /\ \A j \in 1..Len(lit) : s[k + j - 1] = lit[j]

\* The match of the pattern anchored at position k. The classes exclude "_",
\* so every greedy group is the maximal run (a shorter run is followed by a
\* class character, never by the literal).
MatchAt(s, k) ==
  LET n1 == RunLen(s, k + 1, TRUE)
      k2 == k + 1 + n1
      n2 == RunLen(s, k2 + 2, FALSE)
      k3 == k2 + 2 + n2
      n3 == RunLen(s, k3 + 4, FALSE)
      k4 == k3 + 4 + n3
      n4 == RunLen(s, k4 + 4, FALSE)
      ok == /\ LitAt(s, k, <<"r">>)
            /\ n1 >= 1
            /\ LitAt(s, k2, <<"_", "p">>)
            /\ n2 >= 1
            /\ LitAt(s, k3, <<"_", "i", "m", "g">>)
            /\ n3 >= 1
            /\ LitAt(s, k4, <<"_", "v", "a", "r">>)
            /\ n4 >= 1
  IN  IF ok
      THEN [ok |-> TRUE,
            g1 |-> SubSeq(s, k + 1, k + n1),
            g2 |-> SubSeq(s, k2 + 2, k2 + 1 + n2),
            g3 |-> SubSeq(s, k3 + 4, k3 + 3 + n3),
            g4 |-> SubSeq(s, k4 + 4, k4 + 3 + n4)]
      ELSE [ok |-> FALSE, g1 |-> <<>>, g2 |-> <<>>, g3 |-> <<>>, g4 |-> <<>>]

\* re.search: the leftmost position at which the pattern matches
ReSearch(s) ==
  LET hits == {k \in 1..Len(s) : MatchAt(s, k).ok}
  IN  IF hits = {} THEN MatchAt(s, Len(s) + 1)
      ELSE MatchAt(s, CHOOSE k \in hits : \A j \in hits : k <= j)

\* mutant of DecodeMatch: the slug is returned as the ratio ("x" not restored)
DecodeMatchKeepingSlug(m) ==
  [matched |-> m.ok,
   ratio |-> IF m.ok THEN m.g1 ELSE <<>>,
   ratio_slug |-> IF m.ok THEN m.g1 ELSE <<>>,
   prompt_index |-> IF m.ok THEN ParseInt(m.g2) ELSE 0,
   original_index |-> IF m.ok THEN ParseInt(m.g3) ELSE 0,
   variation |-> IF m.ok THEN ParseInt(m.g4) ELSE 0]

\* lines 1513-1519: the fields derived from a match; when matched is FALSE
\* the code leaves all of them None
DecodeMatch(m) ==
  [matched |-> m.ok,
   ratio |-> IF m.ok THEN Replace(m.g1, "x", ":") ELSE <<>>,
   ratio_slug |-> IF m.ok THEN m.g1 ELSE <<>>,
   prompt_index |-> IF m.ok THEN ParseInt(m.g2) ELSE 0,
   original_index |-> IF m.ok THEN ParseInt(m.g3) ELSE 0,
   variation |-> IF m.ok THEN ParseInt(m.g4) ELSE 0]

\* the fields extract_images_from_batch_line derives from the key
DecodeKey(key) == DecodeMatch(ReSearch(key))

(***************************************************************************)
(* State.                                                                  *)
(***************************************************************************)
VARIABLES
  \* key round trip (packer encoder, collector decoder)
  key_pc, key_in, key_str, key_out,
  \* handle_automatic_batch_mode: position, inputs after loading, locals
  batch_pc, inline_images, expanded_prompts, aspect_ratios, num_variations,
  MAX_JSONL_BYTES, MAX_REQUESTS, gcs_client_for_resources,
  slot, ratio_pos, variation,
  request_keys, current_lines, current_size, request_count,
  batch_names, src_files, chunk_summaries, resource_jsonl_gcs_urls,
  batch_response, soft_faults,
  \* the world handle_automatic_batch_mode acts on
  chunk_files, staging, remote_files, remote_jobs,
  \* the number of os.remove calls on a staging file that raised OSError
  remove_errors,
  \* the request-file handles the caller supplied for a resubmission
  preuploaded_jsonl_files,
  \* handle_cleanup_group: position, input, counters, response
  cleanup_pc, cleanup_input, cleanup_handles,
  deleted_gcs, deleted_files, matched_files, matched_batches, deleted_batches,
  cleanup_response,
  \* the world handle_cleanup_group acts on, and the calls it made
  bucket, gemini_files, gemini_batches,
  gcs_delete_calls, file_delete_calls, batch_delete_calls, list_calls,
  \* handle_fetch_results_mode: position, input, locals, response; the lines
  \* the output streams delivered and the objects written to storage
  fetch_pc, fetch_input, job_pos, results, total_bytes, response_files,
  response_jsonl_gcs_urls, fetch_response, streamed, put_log,
  \* the number of uploads that raised in this invocation, the output each
  \* job was found to have (kept when keep_outputs: a second invocation
  \* follows), the invocation's number and, in a second invocation, what
  \* the first one left
  upload_errors, output_files, keep_outputs, fetch_run, first_run,
  \* handler: position, the mode of the job, the response
  handler_pc, mode, handler_response,
  \* the generation handlers: position, input, response, the records of each
  \* task of the fan-out, the tasks that ended, those of them in which a
  \* download, a generation or an upload raised, the calls made so far
  gen_pc, gen_input, gen_response, gen_results, gen_done, gen_failed,
  storage_calls, model_calls,
  \* handle_automatic_mode_batch: position, the semaphore's permits, the
  \* number of upload tasks at each position, the response
  upload_pc, semaphore, upload_tasks, upload_response

keyVars == <<key_pc, key_in, key_str, key_out>>

batchVars ==
  <<batch_pc, inline_images, expanded_prompts, aspect_ratios, num_variations,
    MAX_JSONL_BYTES, MAX_REQUESTS, gcs_client_for_resources,
    slot, ratio_pos, variation,
    request_keys, current_lines, current_size, request_count,
    batch_names, src_files, chunk_summaries, resource_jsonl_gcs_urls,
    batch_response, soft_faults,
    chunk_files, staging, remote_files, remote_jobs, remove_errors,
    preuploaded_jsonl_files>>

cleanupVars ==
  <<cleanup_pc, cleanup_input, cleanup_handles,
    deleted_gcs, deleted_files, matched_files, matched_batches, deleted_batches,
    cleanup_response,
    bucket, gemini_files, gemini_batches,
    gcs_delete_calls, file_delete_calls, batch_delete_calls, list_calls>>

fetchVars ==
  <<fetch_pc, fetch_input, job_pos, results, total_bytes, response_files,
    response_jsonl_gcs_urls, fetch_response, streamed, put_log,
    upload_errors, output_files, keep_outputs, fetch_run, first_run>>

handlerVars == <<handler_pc, mode, handler_response>>

genVars ==
  <<gen_pc, gen_input, gen_response, gen_results, gen_done, gen_failed,
    storage_calls, model_calls>>

uploadVars == <<upload_pc, semaphore, upload_tasks, upload_response>>

VARIABLES
  \* http_get_with_retry: position, the arguments attempts and delay, the
  \* loop variable, the locals last_status and last_error, what the call
  \* ended with; the GET requests issued and the sleeps made, in order
  http_pc, attempts, delay, attempt, last_status, last_error, http_outcome,
  get_log, sleep_log

httpVars ==
  <<http_pc, attempts, delay, attempt, last_status, last_error, http_outcome,
    get_log, sleep_log>>

VARIABLES
  \* expand_prompt_template: position, the argument, the text of every
  \* match (m.group(1)), the locals segments and variables, the list returned
  expand_pc, template, matches, segments, variables, expanded

expandVars == <<expand_pc, template, matches, segments, variables, expanded>>

VARIABLES
  \* generate_image_sync: position, whether the prompt is blank, what the
  \* call ended with; the chunks the response stream holds, the pull at
  \* which the stream raises (0: never), the number of chunks taken from
  \* the stream and of generate_content_stream calls
  gis_pc, prompt_blank, gis_outcome,
  stream, stream_error_at, consumed, stream_calls

streamVars ==
  <<gis_pc, prompt_blank, gis_outcome, stream, stream_error_at, consumed,
    stream_calls>>

VARIABLES
  \* the storage the generation handlers write to and list: position, the
  \* storage config, the object names in the bucket, those of them written
  \* as generated images, the names the last folder listing returned
  names_pc, names_config, objects, outputs, listed

nameVars == <<names_pc, names_config, objects, outputs, listed>>

VARIABLES
  \* stream_jsonl_with_retry and the loop of handle_fetch_results_mode that
  \* consumes it: position, the lines of the output file behind the URL,
  \* the loop variable attempt, the lines yielded so far (by their position
  \* in the file), and the consumer's results and total_bytes
  jsonl_pc, jsonl_file, jsonl_attempt, yielded, jsonl_results, jsonl_bytes

jsonlVars ==
  <<jsonl_pc, jsonl_file, jsonl_attempt, yielded, jsonl_results, jsonl_bytes>>

\* the helpers of the handlers
utilVars == <<httpVars, expandVars, streamVars, nameVars, jsonlVars>>

vars ==
  <<keyVars, batchVars, cleanupVars, fetchVars, handlerVars, genVars,
    uploadVars, utilVars>>

\* what each handler leaves alone: the state of the others
notBatch ==
  <<keyVars, cleanupVars, fetchVars, handlerVars, genVars, uploadVars, utilVars>>

notKey ==
  <<batchVars, cleanupVars, fetchVars, handlerVars, genVars, uploadVars, utilVars>>

notCleanup ==
  <<keyVars, batchVars, fetchVars, handlerVars, genVars, uploadVars, utilVars>>

notGen ==
  <<keyVars, batchVars, cleanupVars, fetchVars, handlerVars, uploadVars, utilVars>>

notUpload ==
  <<keyVars, batchVars, cleanupVars, fetchVars, handlerVars, genVars,
    utilVars>>

notHttp ==
  <<keyVars, batchVars, cleanupVars, fetchVars, handlerVars, genVars,
    uploadVars, expandVars, streamVars, nameVars, jsonlVars>>

notExpand ==
  <<keyVars, batchVars, cleanupVars, fetchVars, handlerVars, genVars,
    uploadVars, httpVars, streamVars, nameVars, jsonlVars>>

notNames ==
  <<keyVars, batchVars, cleanupVars, fetchVars, handlerVars, genVars,
    uploadVars, httpVars, expandVars, streamVars, jsonlVars>>

notStream ==
  <<keyVars, batchVars, cleanupVars, fetchVars, handlerVars, genVars,
    uploadVars, httpVars, expandVars, nameVars, jsonlVars>>

notJsonl ==
  <<keyVars, batchVars, cleanupVars, fetchVars, handlerVars, genVars,
    uploadVars, httpVars, expandVars, streamVars, nameVars>>

\* the collector writes to the bucket the cleanup handler empties
notFetch ==
  <<keyVars, batchVars, cleanup_pc, cleanup_input, cleanup_handles,
    deleted_gcs, deleted_files, matched_files, matched_batches, deleted_batches,
    cleanup_response, gemini_files, gemini_batches,
    gcs_delete_calls, file_delete_calls, batch_delete_calls, list_calls,
    handlerVars, genVars, uploadVars, utilVars>>

(***************************************************************************)
(* Key round trip: encode with the packer, decode with the collector.      *)
(***************************************************************************)
KeyIndexes == 0..MaxKeyIndex

\* valid aspect-ratio strings: digits ":" digits
ValidRatios ==
  {RatioStr(a, b) : a \in 1..MaxRatioTerm, b \in 1..MaxRatioTerm}
    \cup {RatioStr(16, 9), RatioStr(21, 9)}

KeyIdle ==
  /\ key_pc = "idle"
  /\ key_in = <<>>
  /\ key_str = <<>>
  /\ key_out = DecodeKey(<<>>)

KeyInit ==
  /\ key_pc = "input"
  /\ key_in \in [ratio : ValidRatios, prompt_index : KeyIndexes,
                 image_index : KeyIndexes, variation : KeyIndexes]
  /\ key_str = <<>>
  /\ key_out = DecodeKey(<<>>)

\* the packer builds the key of a request
KeyEncode ==
  /\ key_pc = "input"
  /\ key_str' = BuildKey(key_in.ratio, key_in.prompt_index,
                         key_in.image_index, key_in.variation)
  /\ key_pc' = "encoded"
  /\ UNCHANGED <<key_in, key_out, notKey>>

\* the collector decodes the key of a response line
KeyDecode ==
  /\ key_pc = "encoded"
  /\ key_out' = DecodeKey(key_str)
  /\ key_pc' = "decoded"
  /\ UNCHANGED <<key_in, key_str, notKey>>

(***************************************************************************)
(* handle_automatic_batch_mode: inputs.                                    *)
(***************************************************************************)
RatioPool == <<RatioStr(1, 1), RatioStr(16, 9), RatioStr(4, 3), RatioStr(3, 2)>>

\* aspect-ratio lists: distinct ratios, or one ratio repeated
RatioLists ==
  {[k \in 1..n |-> RatioPool[((k - 1) % Len(RatioPool)) + 1]] : n \in 1..MaxRatios}
    \cup {[k \in 1..n |-> RatioPool[1]] : n \in 1..MaxRatios}

\* prompt k of the expanded list is k bytes long
PromptLists == {[k \in 1..m |-> k] : m \in 0..MaxPrompts}

ByteBudgets == {SmallBudget, LargeBudget}

\* Image inputs: where the images come from, how many, which index fields
\* the caller supplied ("asc", "desc": indexes 0.. in that arrival order;
\* "from1": indexes 1..; "none": no index field), which image (if any) is
\* large, and whether loading them succeeds.
ImageSources ==
  [kind : {"inline_data", "image_urls", "gcs_files", "folder", "none"},
   n : 0..MaxImages,
   indexes : {"asc", "desc", "from1", "none"},
   big : 0..MaxImages,
   load : {"ok", "raise"}]

\* the image list as supplied (inline_data / gcs_files entries)
Supplied(src) ==
  [k \in 1..src.n |->
     [index |-> CASE src.indexes = "asc" -> k - 1
                  [] src.indexes = "desc" -> src.n - k
                  [] src.indexes = "from1" -> k
                  [] OTHER -> 0,
      bytes |-> IF k = src.big THEN BigImageBytes ELSE SmallImageBytes]]

\* sorted(xs, key=index): stable insertion sort
RECURSIVE SortByIndex(_)
SortByIndex(xs) ==
  IF Len(xs) <= 1 THEN xs
  ELSE LET rest == SortByIndex(SubSeq(xs, 1, Len(xs) - 1))
           x == xs[Len(xs)]
           pos == Cardinality({k \in 1..Len(rest) : rest[k].index <= x.index})
       IN  SubSeq(rest, 1, pos) \o <<x>> \o SubSeq(rest, pos + 1, Len(rest))

\* load_inline_images_from_urls: index is the position in the URL list
FromUrls(src) ==
  [k \in 1..src.n |->
     [index |-> k - 1,
      bytes |-> IF k = src.big THEN BigImageBytes ELSE SmallImageBytes]]

\* the list inline_images holds once loading has succeeded
LoadedImages(src) ==
  CASE src.kind = "inline_data" -> SortByIndex(Supplied(src))
    [] src.kind = "gcs_files" -> SortByIndex(Supplied(src))
    [] src.kind = "image_urls" -> FromUrls(src)
    [] src.kind = "folder" -> FromUrls(src)
    [] OTHER -> <<>>

(***************************************************************************)
(* handle_automatic_batch_mode: the request line and the loop position.    *)
(***************************************************************************)
\* mutant of LineBytes: the image payload is not counted
LineBytesWithoutImage(key, img, prompt_bytes) == Len(key) + prompt_bytes

\* bytes of the serialized line: the key, the image payload and the prompt
\* (the fixed JSON scaffolding is left out)
LineBytes(key, img, prompt_bytes) == Len(key) + img.bytes + prompt_bytes

total_slots ==
  IF Len(inline_images) >= Len(expanded_prompts)
  THEN Len(inline_images) ELSE Len(expanded_prompts)

\* the nested loops have an iteration left
HasNext == slot < total_slots /\ num_variations > 0

RECURSIVE SumBytes(_)
SumBytes(lines) ==
  IF Len(lines) = 0 THEN 0
  ELSE lines[Len(lines)].bytes + 1 + SumBytes(SubSeq(lines, 1, Len(lines) - 1))

(***************************************************************************)
(* flush_chunk.  L holds the variables the closure reads and writes and    *)
(* the world it acts on; dev is what the environment does to this flush:   *)
(*   "none"     every call succeeds and the job has a name                 *)
(*   "write"    writing the staging file raises                            *)
(*   "mirror"   the upload of the request file to storage raises (caught)  *)
(*   "upload"   client.files.upload raises                                 *)
(*   "create"   client.batches.create raises                               *)
(*   "unnamed"  the created job carries no name                            *)
(*   "remove"   os.remove of the staging file raises OSError (caught)      *)
(* The result is L after the call, with raised set when it raised.         *)
(***************************************************************************)
Locals ==
  [current_lines |-> current_lines,
   current_size |-> current_size,
   batch_names |-> batch_names,
   src_files |-> src_files,
   chunk_summaries |-> chunk_summaries,
   resource_jsonl_gcs_urls |-> resource_jsonl_gcs_urls,
   chunk_files |-> chunk_files,
   staging |-> staging,
   remote_files |-> remote_files,
   remote_jobs |-> remote_jobs,
   remove_errors |-> remove_errors,
   raised |-> FALSE]

\* mutant of flush_chunk: the staging file is removed only when the upload
\* returned (no finally)
flush_chunk_without_finally(L, chunk_idx, dev) ==
  IF L.current_lines = <<>> THEN L
  ELSE
    LET tmp_path == Len(L.chunk_files) + 1
        bytes_written == SumBytes(L.current_lines)
        summary == [chunk_idx |-> chunk_idx,
                    lines |-> Len(L.current_lines),
                    bytes |-> bytes_written]
        written == [lines |-> L.current_lines, bytes |-> bytes_written]
        \* after the write and the try/finally around mirror and upload
        kept == IF dev = "remove" THEN L.staging \cup {tmp_path} ELSE L.staging
        mirrored == IF gcs_client_for_resources /\ dev # "mirror"
                    THEN Append(L.resource_jsonl_gcs_urls, chunk_idx)
                    ELSE L.resource_jsonl_gcs_urls
        file_uri == Len(L.remote_files) + 1
        job == Len(L.remote_jobs) + 1
        staged == [L EXCEPT !.chunk_summaries = Append(@, summary),
                            !.chunk_files = Append(@, written),
                            !.resource_jsonl_gcs_urls = mirrored,
                            !.staging = kept,
                            !.remove_errors =
                               IF dev = "remove" THEN @ + 1 ELSE @]
        uploaded == [staged EXCEPT !.remote_files = Append(@, written)]
    IN  CASE dev = "write" -> [L EXCEPT !.raised = TRUE]
          [] dev = "upload" ->
               [staged EXCEPT !.raised = TRUE,
                              !.staging = L.staging \cup {tmp_path}]
          [] dev = "create" -> [uploaded EXCEPT !.raised = TRUE]
          [] OTHER ->
               [uploaded EXCEPT
                  !.remote_jobs = Append(@, [src |-> file_uri,
                                             named |-> dev # "unnamed"]),
                  !.src_files = Append(@, file_uri),
                  !.batch_names = IF dev # "unnamed" THEN Append(@, job) ELSE @,
                  !.current_lines = <<>>,
                  !.current_size = 0]

\* mutant of flush_chunk: a failure of the mirror upload is not caught
flush_chunk_mirror_raises(L, chunk_idx, dev) ==
  IF L.current_lines = <<>> THEN L
  ELSE
    LET tmp_path == Len(L.chunk_files) + 1
        bytes_written == SumBytes(L.current_lines)
        summary == [chunk_idx |-> chunk_idx,
                    lines |-> Len(L.current_lines),
                    bytes |-> bytes_written]
        written == [lines |-> L.current_lines, bytes |-> bytes_written]
        \* after the write and the try/finally around mirror and upload
        kept == IF dev = "remove" THEN L.staging \cup {tmp_path} ELSE L.staging
        mirrored == IF gcs_client_for_resources /\ dev # "mirror"
                    THEN Append(L.resource_jsonl_gcs_urls, chunk_idx)
                    ELSE L.resource_jsonl_gcs_urls
        file_uri == Len(L.remote_files) + 1
        job == Len(L.remote_jobs) + 1
        staged == [L EXCEPT !.chunk_summaries = Append(@, summary),
                            !.chunk_files = Append(@, written),
                            !.resource_jsonl_gcs_urls = mirrored,
                            !.staging = kept,
                            !.remove_errors =
                               IF dev = "remove" THEN @ + 1 ELSE @]
        uploaded == [staged EXCEPT !.remote_files = Append(@, written)]
    IN  CASE dev = "write" -> [L EXCEPT !.raised = TRUE]
          [] dev \in {"upload", "mirror"} -> [staged EXCEPT !.raised = TRUE]
          [] dev = "create" -> [uploaded EXCEPT !.raised = TRUE]
          [] OTHER ->
               [uploaded EXCEPT
                  !.remote_jobs = Append(@, [src |-> file_uri,
                                             named |-> dev # "unnamed"]),
                  !.src_files = Append(@, file_uri),
                  !.batch_names = IF dev # "unnamed" THEN Append(@, job) ELSE @,
                  !.current_lines = <<>>,
                  !.current_size = 0]

\* lines 184-249
flush_chunk(L, chunk_idx, dev) ==
  IF L.current_lines = <<>> THEN L
  ELSE
    LET tmp_path == Len(L.chunk_files) + 1
        bytes_written == SumBytes(L.current_lines)
        summary == [chunk_idx |-> chunk_idx,
                    lines |-> Len(L.current_lines),
                    bytes |-> bytes_written]
        written == [lines |-> L.current_lines, bytes |-> bytes_written]
        \* after the write and the try/finally around mirror and upload
        kept == IF dev = "remove" THEN L.staging \cup {tmp_path} ELSE L.staging
        mirrored == IF gcs_client_for_resources /\ dev # "mirror"
                    THEN Append(L.resource_jsonl_gcs_urls, chunk_idx)
                    ELSE L.resource_jsonl_gcs_urls
        file_uri == Len(L.remote_files) + 1
        job == Len(L.remote_jobs) + 1
        staged == [L EXCEPT !.chunk_summaries = Append(@, summary),
                            !.chunk_files = Append(@, written),
                            !.resource_jsonl_gcs_urls = mirrored,
                            !.staging = kept,
                            !.remove_errors =
                               IF dev = "remove" THEN @ + 1 ELSE @]
        uploaded == [staged EXCEPT !.remote_files = Append(@, written)]
    IN  CASE dev = "write" -> [L EXCEPT !.raised = TRUE]
          [] dev = "upload" -> [staged EXCEPT !.raised = TRUE]
          [] dev = "create" -> [uploaded EXCEPT !.raised = TRUE]
          [] OTHER ->
               [uploaded EXCEPT
                  !.remote_jobs = Append(@, [src |-> file_uri,
                                             named |-> dev # "unnamed"]),
                  !.src_files = Append(@, file_uri),
                  !.batch_names = IF dev # "unnamed" THEN Append(@, job) ELSE @,
                  !.current_lines = <<>>,
                  !.current_size = 0]

\* what the environment may do to a flush
Deviations ==
  {"none", "write", "upload", "create"}
    \cup (IF soft_faults < MaxSoftFaults
          THEN {"unnamed", "remove"}
                 \cup (IF gcs_client_for_resources THEN {"mirror"} ELSE {})
          ELSE {})

IsSoft(dev) == dev \in {"unnamed", "remove", "mirror"}

\* the variables of the closure and the world take their values from L
SetLocals(L) ==
  /\ current_lines' = L.current_lines
  /\ current_size' = L.current_size
  /\ batch_names' = L.batch_names
  /\ src_files' = L.src_files
  /\ chunk_summaries' = L.chunk_summaries
  /\ resource_jsonl_gcs_urls' = L.resource_jsonl_gcs_urls
  /\ chunk_files' = L.chunk_files
  /\ staging' = L.staging
  /\ remote_files' = L.remote_files
  /\ remote_jobs' = L.remote_jobs
  /\ remove_errors' = L.remove_errors

NoResponse == [status |-> "none"]

Failed(msg) == [status |-> "failed", error |-> msg]

loopInputs ==
  <<inline_images, expanded_prompts, aspect_ratios, num_variations,
    MAX_JSONL_BYTES, MAX_REQUESTS, gcs_client_for_resources,
    preuploaded_jsonl_files>>

loopPos == <<slot, ratio_pos, variation>>

closureVars ==
  <<current_lines, current_size, batch_names, src_files, chunk_summaries,
    resource_jsonl_gcs_urls, chunk_files, staging, remote_files, remote_jobs,
    remove_errors>>

(***************************************************************************)
(* handle_automatic_batch_mode: the prologue (lines 84-182).               *)
(***************************************************************************)
\* the locals and the world before the handler runs
BatchFresh ==
  /\ inline_images = <<>>
  /\ expanded_prompts = <<>>
  /\ aspect_ratios = <<>>
  /\ num_variations = 0
  /\ MAX_JSONL_BYTES = 0
  /\ MAX_REQUESTS = 0
  /\ gcs_client_for_resources = FALSE
  /\ slot = 0
  /\ ratio_pos = 1
  /\ variation = 0
  /\ request_keys = <<>>
  /\ current_lines = <<>>
  /\ current_size = 0
  /\ request_count = 0
  /\ batch_names = <<>>
  /\ src_files = <<>>
  /\ chunk_summaries = <<>>
  /\ resource_jsonl_gcs_urls = <<>>
  /\ batch_response = NoResponse
  /\ soft_faults = 0
  /\ chunk_files = <<>>
  /\ staging = {}
  /\ remote_files = <<>>
  /\ remote_jobs = <<>>
  /\ remove_errors = 0
  /\ preuploaded_jsonl_files = <<>>

BatchIdle == batch_pc = "idle" /\ BatchFresh

BatchInit == batch_pc = "start" /\ BatchFresh

\* the handler returns resp without having touched anything
BatchReturnEarly(resp) ==
  /\ batch_pc' = "returned"
  /\ batch_response' = resp
  /\ UNCHANGED <<loopInputs, loopPos, request_keys, request_count,
                 closureVars, soft_faults, notBatch>>

\* line 101: no API key in the input or the environment
BatchMissingKey ==
  /\ batch_pc = "start"
  /\ BatchReturnEarly(Failed("Missing GEMINI_API_KEY"))

\* remote file handles as callers pass them: bare name, files/<name>, or a
\* download URL holding /files/<name>
FilePool ==
  <<[form |-> "bare", name |-> "a"], [form |-> "files", name |-> "a"],
    [form |-> "files", name |-> "b"], [form |-> "http", name |-> "b"]>>

\* mutant of normalize_file_uri: the handle is passed on as it was given
raw_file_uri(h) == h

\* normalize_file_uri (lines 1235-1245): every form becomes files/<name>
normalize_file_uri(h) == [form |-> "files", name |-> h.name]

\* the lists of request-file handles a caller resubmits: one to
\* MaxPreuploaded handles of the pool, in any of the forms
PreuploadedLists ==
  {[k \in 1..n |-> FilePool[((k - 1 + off) % Len(FilePool)) + 1]] :
     n \in 1..MaxPreuploaded, off \in 0..(Len(FilePool) - 1)}

\* lines 105-125: jobs are created straight from already uploaded files;
\* created is how many batches.create calls succeed before one raises
BatchFastPath ==
  /\ batch_pc = "start"
  /\ \E files \in PreuploadedLists, created \in 0..MaxPreuploaded,
        named \in BOOLEAN :
       /\ created <= Len(files)
       /\ preuploaded_jsonl_files' = files
       /\ remote_jobs' = remote_jobs \o
            [k \in 1..created |-> [src |-> normalize_file_uri(files[k]),
                                   named |-> named]]
       /\ IF created < Len(files)
          THEN /\ batch_pc' = "raised"
               /\ batch_response' = NoResponse
          ELSE /\ batch_pc' = "returned"
               /\ batch_response' =
                    [status |-> "batch_submitted",
                     batch_job_names |->
                       IF named
                       THEN [k \in 1..Len(files) |-> Len(remote_jobs) + k]
                       ELSE <<>>,
                     batch_src_files |-> files,
                     request_keys |-> <<>>,
                     resource_jsonl_gcs_urls |-> <<>>]
  /\ UNCHANGED <<inline_images, expanded_prompts, aspect_ratios,
                 num_variations, MAX_JSONL_BYTES, MAX_REQUESTS,
                 gcs_client_for_resources, loopPos, request_keys,
                 request_count, current_lines, current_size, batch_names,
                 src_files, chunk_summaries, resource_jsonl_gcs_urls,
                 chunk_files, staging, remote_files, remove_errors,
                 soft_faults, notBatch>>

\* line 130: the expanded prompt list is empty
BatchNoPrompt ==
  /\ batch_pc = "start"
  /\ BatchReturnEarly(Failed("Prompt is required"))

\* lines 133-152: no image can be loaded
BatchLoadFailed ==
  /\ batch_pc = "start"
  /\ \E src \in ImageSources :
       CASE src.kind = "none" ->
              BatchReturnEarly(Failed("No images provided"))
         [] src.kind = "folder" /\ src.load = "raise" ->
              BatchReturnEarly(Failed("Failed to load images from folder"))
         [] src.kind \in {"gcs_files", "folder"} /\ src.load = "ok" /\ src.n = 0 ->
              BatchReturnEarly(Failed("No images found to batch"))
         [] src.kind \in {"image_urls", "gcs_files"} /\ src.load = "raise" ->
              \* the download raises outside any try
              /\ batch_pc' = "raised"
              /\ batch_response' = NoResponse
              /\ UNCHANGED <<loopInputs, loopPos, request_keys, request_count,
                             closureVars, soft_faults, notBatch>>
         [] OTHER -> FALSE

\* lines 128-182 and 251-254: prompts and images are there; the loop starts
BatchBegin ==
  /\ batch_pc = "start"
  /\ \E src \in ImageSources :
       /\ src.kind # "none"
       /\ src.load = "ok"
       /\ src.n >= 1
       /\ src.big <= src.n
       /\ inline_images' = LoadedImages(src)
  /\ expanded_prompts' \in PromptLists \ {<<>>}
  /\ aspect_ratios' \in RatioLists
  /\ num_variations' \in 0..MaxVariations
  /\ MAX_JSONL_BYTES' \in ByteBudgets
  /\ MAX_REQUESTS' \in 0..MaxLineBudget
  \* the model follows submissions of at most MaxRequestLines requests
  /\ (IF Len(inline_images') >= Len(expanded_prompts')
      THEN Len(inline_images') ELSE Len(expanded_prompts'))
       * Len(aspect_ratios') * num_variations' <= MaxRequestLines
  \* gcs_config given, save_jsonl_to_gcs set and initialize_gcs_client succeeded
  /\ gcs_client_for_resources' \in BOOLEAN
  /\ batch_pc' = "loop"
  /\ UNCHANGED <<preuploaded_jsonl_files, loopPos, request_keys,
                 request_count, closureVars,
                 batch_response, soft_faults, notBatch>>

(***************************************************************************)
(* handle_automatic_batch_mode: one iteration of the nested loops          *)
(* (lines 255-299) and the end of the handler (lines 301-317).             *)
(***************************************************************************)
\* the position after this iteration: variation, then ratio, then slot
Advance ==
  IF variation + 1 < num_variations
  THEN /\ variation' = variation + 1
       /\ UNCHANGED <<slot, ratio_pos>>
  ELSE IF ratio_pos < Len(aspect_ratios)
       THEN /\ variation' = 0
            /\ ratio_pos' = ratio_pos + 1
            /\ UNCHANGED slot
       ELSE /\ variation' = 0
            /\ ratio_pos' = 1
            /\ slot' = slot + 1

\* mutant of CurImage: past the last image the last image is taken again
CurImageWithoutWrap ==
  inline_images[IF slot < Len(inline_images) THEN slot + 1
                ELSE Len(inline_images)]

\* the image, prompt index and key of the iteration at the current position
CurImage == inline_images[(slot % Len(inline_images)) + 1]

CurPromptIdx == slot % Len(expanded_prompts)

CurKey ==
  BuildKey(aspect_ratios[ratio_pos], CurPromptIdx, CurImage.index, variation)

CurLine ==
  [key |-> CurKey,
   bytes |-> LineBytes(CurKey, CurImage, expanded_prompts[CurPromptIdx + 1])]

\* mutant of MustFlush: the size of the line to add is not counted
MustFlushIgnoringLine(line_size) ==
  (current_size > MAX_JSONL_BYTES) \/ (request_count >= MAX_REQUESTS)

\* lines 293-295: the buffer is flushed before this line is added
MustFlush(line_size) ==
  (current_size + line_size > MAX_JSONL_BYTES) \/ (request_count >= MAX_REQUESTS)

\* lines 286-292: a line larger than the budget ends the submission
BatchLineTooLarge ==
  /\ batch_pc = "loop"
  /\ HasNext
  /\ CurLine.bytes + 1 > MAX_JSONL_BYTES
  /\ request_keys' = Append(request_keys, CurKey)
  /\ batch_pc' = "returned"
  /\ batch_response' =
       [status |-> "failed",
        error |-> "Single request too large for JSONL chunking",
        image_index |-> CurImage.index]
  /\ UNCHANGED <<loopInputs, loopPos, request_count, closureVars, soft_faults,
                 notBatch>>

\* lines 293-299: the line is added, after a flush when a budget asks for it
BatchEmitLine ==
  /\ batch_pc = "loop"
  /\ HasNext
  /\ CurLine.bytes + 1 <= MAX_JSONL_BYTES
  /\ request_keys' = Append(request_keys, CurKey)
  /\ \E dev \in Deviations :
       LET line_size == CurLine.bytes + 1
           flush == MustFlush(line_size)
           L == IF flush THEN flush_chunk(Locals, Len(batch_names), dev)
                ELSE Locals
       IN  /\ (~flush \/ current_lines = <<>>) => dev = "none"
           /\ soft_faults' = IF IsSoft(dev) THEN soft_faults + 1 ELSE soft_faults
           /\ IF L.raised
              THEN /\ SetLocals(L)
                   /\ batch_pc' = "raised"
                   /\ UNCHANGED <<loopPos, request_count>>
              ELSE /\ SetLocals([L EXCEPT
                                   !.current_lines = Append(@, CurLine),
                                   !.current_size = @ + line_size])
                   /\ request_count' = (IF flush THEN 0 ELSE request_count) + 1
                   /\ batch_pc' = "loop"
                   /\ Advance
  /\ UNCHANGED <<loopInputs, batch_response, notBatch>>

\* mutant of BatchFinish: the remaining buffer is not flushed
BatchFinishWithoutFlush ==
  /\ batch_pc = "loop"
  /\ ~HasNext
  /\ batch_pc' = "returned"
  /\ batch_response' =
       [status |-> "batch_submitted",
        batch_job_names |-> batch_names,
        batch_src_files |-> src_files,
        request_keys |-> request_keys,
        resource_jsonl_gcs_urls |-> resource_jsonl_gcs_urls]
  /\ UNCHANGED <<loopInputs, loopPos, request_keys, request_count,
                 closureVars, soft_faults, notBatch>>

\* lines 301-317: the remaining buffer is flushed and the handler returns
BatchFinish ==
  /\ batch_pc = "loop"
  /\ ~HasNext
  /\ \E dev \in Deviations :
       LET L == flush_chunk(Locals, Len(batch_names), dev)
       IN  /\ current_lines = <<>> => dev = "none"
           /\ soft_faults' = IF IsSoft(dev) THEN soft_faults + 1 ELSE soft_faults
           /\ SetLocals(L)
           /\ IF L.raised
              THEN /\ batch_pc' = "raised"
                   /\ UNCHANGED batch_response
              ELSE /\ batch_pc' = "returned"
                   /\ batch_response' =
                        [status |-> "batch_submitted",
                         batch_job_names |-> L.batch_names,
                         batch_src_files |-> L.src_files,
                         request_keys |-> request_keys,
                         resource_jsonl_gcs_urls |-> L.resource_jsonl_gcs_urls]
  /\ UNCHANGED <<loopInputs, loopPos, request_keys, request_count, notBatch>>

(***************************************************************************)
(* handle_cleanup_group (lines 1536-1677).                                 *)
(***************************************************************************)
\* job ids; the first is a string prefix of the second
JobPool == <<<<"j", "1">>, <<"j", "1", "0">>, <<"j", "2">>>>

\* job_ids lists: up to MaxJobIds jobs of the pool, in pool order
JobIdLists ==
  {SelectSeq(JobPool, LAMBDA j : j \in S) :
     S \in {T \in SUBSET Range(JobPool) : Cardinality(T) <= MaxJobIds}}

StartsWith(str, prefix) ==
  /\ Len(prefix) <= Len(str)
  /\ SubSeq(str, 1, Len(prefix)) = prefix

\* gcs_config.path_prefix of a storage config ("plain": none is set)
PathPrefix(cfg) == IF cfg = "prefixed" THEN <<"p">> ELSE <<>>

\* the path of file f written for job j by the upload helpers
\* (upload_to_gcs_sync lines 1033-1036)
ObjectPath(cfg, j, f) ==
  (IF PathPrefix(cfg) # <<>> THEN PathPrefix(cfg) \o <<"/">> ELSE <<>>)
    \o j \o <<"/">> \o f

\* the prefix handle_cleanup_group lists for a job id (line 1568)
CleanupPrefix(cfg, j) == PathPrefix(cfg) \o <<"/">> \o j

\* the bucket before cleanup: one object per job and storage layout
InitialBucket ==
  {ObjectPath(cfg, JobPool[k], <<"a">>) :
     cfg \in {"plain", "prefixed"}, k \in 1..Len(JobPool)}

FileNames == {FilePool[k].name : k \in 1..Len(FilePool)}

BatchPool == <<[form |-> "batch", name |-> "x"], [form |-> "batch", name |-> "y"]>>

BatchHandles == {BatchPool[k] : k \in 1..Len(BatchPool)}

InitialFiles == {[form |-> "files", name |-> n] : n \in FileNames}

\* handle lists of up to MaxHandles entries: the pool read cyclically from
\* some offset (so that lists hold repeated and equivalent handles)
HandleLists(pool) ==
  {[k \in 1..n |-> pool[((k - 1 + off) % Len(pool)) + 1]] :
     n \in 0..MaxHandles, off \in 0..(Len(pool) - 1)}
    \cup {[k \in 1..n |-> pool[1]] : n \in 0..MaxHandles}

\* mutant of Dedup: repeated entries are kept
KeepDuplicates(xs) == xs

\* de-duplication keeping the first occurrence (lines 1639-1641)
RECURSIVE Dedup(_)
Dedup(xs) ==
  IF Len(xs) = 0 THEN <<>>
  ELSE LET front == Dedup(SubSeq(xs, 1, Len(xs) - 1))
           x == xs[Len(xs)]
       IN  IF \E k \in 1..Len(front) : front[k] = x THEN front
           ELSE Append(front, x)

CleanupInputs ==
  [group_id : BOOLEAN,
   job_ids : JobIdLists,
   gcs_config : {"none", "plain", "prefixed"},
   api_key : BOOLEAN,
   purge_gemini_all : BOOLEAN,
   allow_purge : BOOLEAN]

NoHandles == [batch_names |-> <<>>, batch_src_files |-> <<>>, response_files |-> <<>>]

CleanupFresh ==
  /\ cleanup_handles = NoHandles
  /\ deleted_gcs = 0
  /\ deleted_files = 0
  /\ matched_files = 0
  /\ matched_batches = 0
  /\ deleted_batches = 0
  /\ cleanup_response = NoResponse
  /\ bucket = InitialBucket
  /\ gemini_files = InitialFiles
  /\ gemini_batches = BatchHandles
  /\ gcs_delete_calls = 0
  /\ file_delete_calls = <<>>
  /\ batch_delete_calls = <<>>
  /\ list_calls = 0

CleanupIdle ==
  /\ cleanup_pc = "idle"
  /\ cleanup_input = [group_id |-> FALSE, job_ids |-> <<>>, gcs_config |-> "none",
                      api_key |-> FALSE, purge_gemini_all |-> FALSE,
                      allow_purge |-> FALSE]
  /\ CleanupFresh

CleanupInit ==
  /\ cleanup_pc = "start"
  /\ cleanup_input \in CleanupInputs
  /\ CleanupFresh

cleanupCounters ==
  <<deleted_gcs, deleted_files, matched_files, matched_batches, deleted_batches>>

cleanupGemini ==
  <<gemini_files, gemini_batches, file_delete_calls, batch_delete_calls, list_calls>>

\* lines 1548-1550: group_id or job_ids missing
CleanupSkip ==
  /\ cleanup_pc = "start"
  /\ ~cleanup_input.group_id \/ cleanup_input.job_ids = <<>>
  /\ cleanup_pc' = "returned"
  /\ cleanup_response' = [status |-> "skipped",
                          reason |-> "missing group_id or job_ids"]
  /\ UNCHANGED <<cleanup_input, cleanup_handles, cleanupCounters, bucket,
                 gcs_delete_calls, cleanupGemini, notCleanup>>

\* the environment fails the delete of at most one resource per stage
OneOrNone(S) == {{}} \cup {{x} : x \in S}

\* the objects list_blobs returns for the job ids, lines 1567-1569
MatchedBlobs ==
  {b \in bucket :
     \E k \in 1..Len(cleanup_input.job_ids) :
       StartsWith(b, CleanupPrefix(cleanup_input.gcs_config,
                                   cleanup_input.job_ids[k]))}

\* blob.delete() calls made for an object: one if the delete succeeds, one
\* per job id whose prefix lists it if it keeps failing
DeleteCalls(b, fails) ==
  IF fails
  THEN Cardinality({k \in 1..Len(cleanup_input.job_ids) :
         StartsWith(b, CleanupPrefix(cleanup_input.gcs_config,
                                     cleanup_input.job_ids[k]))})
  ELSE 1

RECURSIVE SumCalls(_, _)
SumCalls(blobs, failing) ==
  IF blobs = {} THEN 0
  ELSE LET b == CHOOSE x \in blobs : TRUE
       IN  DeleteCalls(b, b \in failing) + SumCalls(blobs \ {b}, failing)

\* lines 1562-1575: storage cleanup; init is what initialize_gcs_client
\* does, failing the objects whose delete raises (swallowed)
CleanupGcs ==
  /\ cleanup_pc = "start"
  /\ cleanup_input.group_id /\ cleanup_input.job_ids # <<>>
  /\ IF cleanup_input.gcs_config = "none"
     THEN /\ cleanup_pc' = "gemini"
          /\ UNCHANGED <<bucket, deleted_gcs, gcs_delete_calls>>
     ELSE \E init \in {"ok", "raise"} :
            IF init = "raise"
            THEN \* raised outside any try
                 /\ cleanup_pc' = "raised"
                 /\ UNCHANGED <<bucket, deleted_gcs, gcs_delete_calls>>
            ELSE \E failing \in OneOrNone(MatchedBlobs) :
                   /\ bucket' = bucket \ (MatchedBlobs \ failing)
                   /\ deleted_gcs' = Cardinality(MatchedBlobs \ failing)
                   /\ gcs_delete_calls' = SumCalls(MatchedBlobs, failing)
                   /\ cleanup_pc' = "gemini"
  /\ UNCHANGED <<cleanup_input, cleanup_handles, deleted_files, matched_files,
                 matched_batches, deleted_batches, cleanup_response,
                 cleanupGemini, notCleanup>>

\* the sequence xs without the handles whose delete fails
Kept(xs, failing) == SelectSeq(xs, LAMBDA h : h \notin failing)

\* mutant of CallsMade: the loop ends at the first delete that raises
CallsUntilFailure(xs, failing) ==
  IF \E k \in 1..Len(xs) : xs[k] \in failing
  THEN SubSeq(xs, 1, CHOOSE k \in 1..Len(xs) :
                       /\ xs[k] \in failing
                       /\ \A j \in 1..(k - 1) : xs[j] \notin failing)
  ELSE xs

\* lines 1646-1662: the handles a delete loop calls delete on; the
\* try/except sits inside the loop, so a delete that raises is followed by
\* the delete of the next handle
CallsMade(xs, failing) == xs

\* some order in which a listing returns the members of a set
RECURSIVE Listing(_)
Listing(S) ==
  IF S = {} THEN <<>>
  ELSE LET x == CHOOSE y \in S : TRUE IN <<x>> \o Listing(S \ {x})

\* lines 1669-1677: the final response
CleanupCompleted(df, mf, mb, db) ==
  [status |-> "completed", deleted_gcs |-> deleted_gcs,
   deleted_gemini_files |-> df, matched_gemini_files |-> mf,
   matched_batches |-> mb, deleted_batches |-> db]

\* lines 1578 and 1669: no API key, nothing remote is touched
CleanupNoApiKey ==
  /\ cleanup_pc = "gemini"
  /\ ~cleanup_input.api_key
  /\ cleanup_pc' = "returned"
  /\ cleanup_response' = CleanupCompleted(0, 0, 0, 0)
  /\ UNCHANGED <<cleanup_input, cleanup_handles, cleanupCounters, bucket,
                 gcs_delete_calls, cleanupGemini, notCleanup>>

\* lines 1579-1580 and 1666-1667: building the client raises inside the try
CleanupClientFails ==
  /\ cleanup_pc = "gemini"
  /\ cleanup_input.api_key
  /\ cleanup_pc' = "returned"
  /\ cleanup_response' = Failed("Gemini cleanup failed")
  /\ UNCHANGED <<cleanup_input, cleanup_handles, cleanupCounters, bucket,
                 gcs_delete_calls, cleanupGemini, notCleanup>>

\* lines 1584-1591: purge requested, ALLOW_GEMINI_PURGE_ALL not enabled
CleanupPurgeRefused ==
  /\ cleanup_pc = "gemini"
  /\ cleanup_input.api_key
  /\ cleanup_input.purge_gemini_all
  /\ ~cleanup_input.allow_purge
  /\ cleanup_pc' = "returned"
  /\ cleanup_response' =
       Failed("purge_gemini_all requested but ALLOW_GEMINI_PURGE_ALL is not enabled")
  /\ UNCHANGED <<cleanup_input, cleanup_handles, cleanupCounters, bucket,
                 gcs_delete_calls, cleanupGemini, notCleanup>>

\* lines 1592-1630: every remote file and job is listed and deleted; the
\* deletes of failF and failB raise (swallowed)
CleanupPurgeAll ==
  /\ cleanup_pc = "gemini"
  /\ cleanup_input.api_key
  /\ cleanup_input.purge_gemini_all
  /\ cleanup_input.allow_purge
  /\ \E failF \in OneOrNone(gemini_files), failB \in OneOrNone(gemini_batches) :
       /\ file_delete_calls' = Listing(gemini_files)
       /\ batch_delete_calls' = Listing(gemini_batches)
       /\ gemini_files' = failF
       /\ gemini_batches' = failB
       /\ cleanup_response' =
            [status |-> "completed", deleted_gcs |-> deleted_gcs,
             purged_gemini_files |-> Cardinality(gemini_files \ failF),
             purged_gemini_batches |-> Cardinality(gemini_batches \ failB)]
  /\ list_calls' = list_calls + 2
  /\ cleanup_pc' = "returned"
  /\ UNCHANGED <<cleanup_input, cleanup_handles, cleanupCounters, bucket,
                 gcs_delete_calls, notCleanup>>

\* mutant of CleanupStrict: the remote files are listed and those found
\* are deleted, whatever the caller named
CleanupStrictWithScan ==
  /\ cleanup_pc = "gemini"
  /\ cleanup_input.api_key
  /\ ~cleanup_input.purge_gemini_all
  /\ list_calls' = list_calls + 1
  /\ file_delete_calls' = Listing(gemini_files)
  /\ gemini_files' = {}
  /\ deleted_files' = Cardinality(gemini_files)
  /\ matched_files' = Cardinality(gemini_files)
  /\ cleanup_response' =
       CleanupCompleted(Cardinality(gemini_files), Cardinality(gemini_files),
                        0, 0)
  /\ cleanup_pc' = "returned"
  /\ UNCHANGED <<cleanup_input, cleanup_handles, deleted_gcs, matched_batches,
                 deleted_batches, bucket, gemini_batches, gcs_delete_calls,
                 batch_delete_calls, notCleanup>>

\* lines 1632-1677: the handles the caller names are deleted, each once;
\* the deletes of failF and failB raise (swallowed; so does the delete of
\* a handle that does not exist remotely)
CleanupStrict ==
  /\ cleanup_pc = "gemini"
  /\ cleanup_input.api_key
  /\ ~cleanup_input.purge_gemini_all
  /\ \E src \in HandleLists(FilePool),
        rsp \in {<<>>, <<FilePool[2]>>, <<FilePool[Len(FilePool)]>>},
        names \in HandleLists(BatchPool) :
       LET files_to_delete ==
             Dedup([k \in 1..Len(src) |-> normalize_file_uri(src[k])]
                   \o [k \in 1..Len(rsp) |-> normalize_file_uri(rsp[k])])
           batch_names_dedup == Dedup(names)
       IN  \E failing \in OneOrNone(Range(files_to_delete) \cup Range(batch_names_dedup)) :
             LET calledF == CallsMade(files_to_delete, failing)
                 calledB == CallsMade(batch_names_dedup, failing)
                 okF == Kept(calledF, failing \cup (Range(calledF) \ gemini_files))
                 okB == Kept(calledB, failing \cup (Range(calledB) \ gemini_batches))
             IN  /\ cleanup_handles' = [batch_names |-> names,
                                        batch_src_files |-> src,
                                        response_files |-> rsp]
                 /\ file_delete_calls' = calledF
                 /\ batch_delete_calls' = calledB
                 /\ gemini_files' = gemini_files \ Range(okF)
                 /\ gemini_batches' = gemini_batches \ Range(okB)
                 /\ deleted_files' = Len(okF)
                 /\ matched_files' = Len(okF)
                 /\ deleted_batches' = Len(okB)
                 /\ matched_batches' = Len(okB)
                 /\ cleanup_response' =
                      CleanupCompleted(Len(okF), Len(okF), Len(okB), Len(okB))
  /\ cleanup_pc' = "returned"
  /\ UNCHANGED <<cleanup_input, deleted_gcs, bucket, gcs_delete_calls,
                 list_calls, notCleanup>>

CleanupNext ==
  \/ CleanupSkip
  \/ CleanupGcs
  \/ CleanupNoApiKey
  \/ CleanupClientFails
  \/ CleanupPurgeRefused
  \/ CleanupPurgeAll
  \/ CleanupStrict

(***************************************************************************)
(* handle_fetch_results_mode (lines 1310-1497) and                         *)
(* extract_images_from_batch_line (lines 1499-1530).                       *)
(***************************************************************************)
\* keys found in output lines: three keys the packer builds (the second
\* differs from the first in the ratio only, the third in the image index)
\* and a key that is not of the packer's form
FetchKeys ==
  <<BuildKey(RatioStr(1, 1), 0, 0, 0), BuildKey(RatioStr(16, 9), 0, 0, 0),
    BuildKey(RatioStr(1, 1), 0, 1, 0), <<"f", "o", "o">>>>

\* the key fields of those keys, decoded once
KeyFields == [k \in 1..Len(FetchKeys) |-> DecodeKey(FetchKeys[k])]

\* Output lines a stream can deliver; key is an index into FetchKeys.
\* kind: "blank" (empty or whitespace), "malformed" (not JSON), "error" (an error object in place of the
\* response), "image" (parts inline images), "badpart" (an inline image
\* followed by a part that is not an object).
\* bytes is the UTF-8 length of the line.
OutputLines ==
  {[kind |-> "blank", key |-> 1, parts |-> 0, bytes |-> 1],
   [kind |-> "malformed", key |-> 1, parts |-> 0, bytes |-> 5],
   [kind |-> "error", key |-> 1, parts |-> 0, bytes |-> 9],
   [kind |-> "badpart", key |-> 1, parts |-> 1, bytes |-> 9],
   [kind |-> "image", key |-> 1, parts |-> 2, bytes |-> 9]}
    \cup {[kind |-> "image", key |-> k, parts |-> 1, bytes |-> 9] :
            k \in 1..Len(FetchKeys)}

\* json.loads(line) succeeds
JsonLoads(line) == line.kind # "malformed"

\* what a raising step leaves behind
Raised == [raised |-> TRUE, out |-> <<>>]

\* extract_images_from_batch_line: the items of a parsed line, or raised
\* (a part that is not an object)
extract_images_from_batch_line(line) ==
  IF line.kind = "badpart" THEN Raised
  ELSE [raised |-> FALSE,
        out |-> [k \in 1..(IF line.kind = "image" THEN line.parts ELSE 0) |->
                   [base64 |-> k, key |-> FetchKeys[line.key]]
                     @@ KeyFields[line.key]]]

\* mutant of Collected: a line that raises ends the collection of the
\* stream (its error is not caught per line)
CollectedUncaught(acc, line, got) ==
  IF acc.aborted THEN acc
  ELSE IF got.raised
       THEN [acc EXCEPT !.aborted = TRUE, !.bytes = @ + line.bytes + 1]
       ELSE [acc EXCEPT !.bytes = @ + line.bytes + 1, !.results = @ \o got.out]

\* lines 1376-1384: the bytes are counted; the items are appended unless
\* parsing or extraction raised (except: continue)
Collected(acc, line, got) ==
  IF got.raised
  THEN [acc EXCEPT !.bytes = @ + line.bytes + 1]
  ELSE [acc EXCEPT !.bytes = @ + line.bytes + 1, !.results = @ \o got.out]

\* lines 1368-1384: one line of the stream; a blank line is passed over
CollectLine(acc, line) ==
  IF line.kind = "blank" THEN acc
  ELSE Collected(acc, line,
         IF JsonLoads(line) THEN extract_images_from_batch_line(line) ELSE Raised)

\* lines 1367-1384: the lines of a stream, in order
RECURSIVE CollectLines(_, _)
CollectLines(acc, lines) ==
  IF Len(lines) = 0 THEN acc
  ELSE CollectLines(CollectLine(acc, lines[1]), Tail(lines))

\* lines 1422-1434 and 1451-1452: the file name of a result item
GeminiPng == <<"_", "g", "e", "m", "i", "n", "i", ".", "p", "n", "g">>

\* mutant of ResultFileName: files are named by a running upload count
ResultFileNameByUploadCount(img, idx) ==
  <<"r", "e", "s", "u", "l", "t", "_">> \o Str(idx + Len(put_log)) \o GeminiPng

ResultFileName(img, idx) ==
  IF ~img.matched
  THEN <<"r", "e", "s", "u", "l", "t", "_">> \o Str(idx) \o GeminiPng
  ELSE <<"p">> \o Str(img.prompt_index) \o <<"_", "i", "m", "g">>
         \o Str(img.original_index) \o <<"_", "v", "a", "r">>
         \o Str(img.variation) \o GeminiPng

\* lines 1435 and 1453, upload_to_gcs_sync 1033-1039: the object path;
\* output_gcs_prefix is the folder <<"o">> when given
ResultPath(inp, img, idx) ==
  IF inp.output_gcs_prefix
  THEN <<"o", "/">> \o ResultFileName(img, idx)
  ELSE ObjectPath(inp.gcs_config, inp.job_id, ResultFileName(img, idx))

\* lines 1417-1470: the upload loop from item idx (0-based) on; st holds
\* uploaded, the bucket and the writes so far; the upload of item failing
\* (if any) raises and is skipped
RECURSIVE UploadFrom(_, _, _, _, _)
UploadFrom(inp, items, idx, failing, st) ==
  IF idx >= Len(items) THEN st
  ELSE LET img == items[idx + 1]
           path == ResultPath(inp, img, idx)
           skip == inp.output_gcs_prefix /\ path \in st.bucket
           rec == [gcs_url |-> path,
                   matched |-> img.matched,
                   variation |-> img.variation,
                   original_index |-> img.original_index,
                   ratio |-> img.ratio]
       IN  IF idx = failing
           THEN UploadFrom(inp, items, idx + 1, failing, st)
           ELSE UploadFrom(inp, items, idx + 1, failing,
                  [uploaded |-> Append(st.uploaded, rec),
                   bucket |-> st.bucket \cup {path},
                   puts |-> IF skip THEN st.puts
                            ELSE Append(st.puts, [path |-> path, data |-> img.base64])])

\* mutant of DedupByUrl: nothing is dropped
KeepAllUrls(uploaded) == uploaded

\* lines 1471-1479: the first entry of every URL is kept
RECURSIVE DedupByUrl(_)
DedupByUrl(uploaded) ==
  IF Len(uploaded) = 0 THEN <<>>
  ELSE LET front == DedupByUrl(SubSeq(uploaded, 1, Len(uploaded) - 1))
           r == uploaded[Len(uploaded)]
       IN  IF \E k \in 1..Len(front) : front[k].gcs_url = r.gcs_url THEN front
           ELSE Append(front, r)

\* storage configs of the collector; the two flags that act only with a
\* storage config are drawn with one
FetchStorage ==
  {[gcs_config |-> "none", save |-> FALSE, out |-> FALSE]}
    \cup [gcs_config : {"prefixed"}, save : BOOLEAN, out : BOOLEAN]

FetchInputs ==
  {[job_id |-> JobPool[1],
    batch_names |-> [k \in 1..n |-> BatchPool[((k - 1) % Len(BatchPool)) + 1]],
    api_key |-> key,
    gcs_config |-> st.gcs_config,
    save_response_jsonl_to_gcs |-> st.save,
    output_gcs_prefix |-> st.out] :
     n \in 0..MaxFetchJobs, key \in BOOLEAN, st \in FetchStorage}

\* nothing is known of an earlier invocation
NoRun == [bucket |-> {}, upload_errors |-> 0, results |-> <<>>]

FetchFresh ==
  /\ job_pos = 1
  /\ results = <<>>
  /\ total_bytes = 0
  /\ response_files = <<>>
  /\ response_jsonl_gcs_urls = <<>>
  /\ fetch_response = NoResponse
  /\ streamed = <<>>
  /\ put_log = <<>>
  /\ upload_errors = 0
  /\ output_files = <<>>
  /\ fetch_run = 1
  /\ first_run = NoRun

FetchIdle ==
  /\ fetch_pc = "idle"
  /\ keep_outputs = FALSE
  /\ fetch_input = [job_id |-> <<>>, batch_names |-> <<>>, api_key |-> FALSE,
                    gcs_config |-> "none", save_response_jsonl_to_gcs |-> FALSE,
                    output_gcs_prefix |-> FALSE]
  /\ FetchFresh

FetchInit ==
  /\ fetch_pc = "start"
  /\ fetch_input \in FetchInputs
  /\ FetchFresh

fetchLocals ==
  <<job_pos, results, total_bytes, response_files, response_jsonl_gcs_urls,
    streamed, put_log, upload_errors, output_files>>

fetchRuns == <<keep_outputs, fetch_run, first_run>>

\* lines 1325-1328: missing job id, job handles or API key
FetchReject ==
  /\ fetch_pc = "start"
  /\ fetch_input.batch_names = <<>> \/ ~fetch_input.api_key
  /\ fetch_pc' = "returned"
  /\ fetch_response' =
       IF fetch_input.batch_names = <<>>
       THEN Failed("Missing job_id or batch_job_names")
       ELSE Failed("Missing GEMINI_API_KEY")
  /\ UNCHANGED <<fetch_input, fetchLocals, fetchRuns, bucket, notFetch>>

\* lines 1330-1337
FetchBegin ==
  /\ fetch_pc = "start"
  /\ fetch_input.batch_names # <<>> /\ fetch_input.api_key
  /\ fetch_pc' = "jobs"
  /\ UNCHANGED <<fetch_input, fetchLocals, fetchRuns, fetch_response, bucket,
                 notFetch>>

\* the streams of one invocation deliver at most MaxFetchLines lines
Streams ==
  UNION {[1..n -> OutputLines] : n \in 0..(MaxFetchLines - Len(streamed))}

\* what the lookup of the job at job_pos finds: nothing attached, or an
\* output file of some lines; a job looked up before has what it had then
JobOutputs ==
  IF job_pos <= Len(output_files) THEN {output_files[job_pos]}
  ELSE {[attached |-> FALSE, lines |-> <<>>]}
         \cup [attached : {TRUE}, lines : Streams]

\* lines 1339-1408: one job handle.  lookup is whether client.batches.get
\* returns or raises; found is what it returns; the stream delivers the
\* lines of the output file and then ends or (ends = "raise") fails for
\* good, which skips the copy of the response file to storage; mirror is
\* whether that copy, when made, reaches storage.
FetchJob ==
  /\ fetch_pc = "jobs"
  /\ job_pos <= Len(fetch_input.batch_names)
  /\ \E lookup \in {"raise", "ok"}, found \in JobOutputs :
       CASE lookup = "raise" ->
              \* raised outside any try
              /\ fetch_pc' = "raised"
              /\ UNCHANGED fetchLocals
         [] lookup = "ok" /\ ~found.attached ->
              /\ fetch_pc' = "jobs"
              /\ job_pos' = job_pos + 1
              /\ output_files' =
                   IF keep_outputs /\ job_pos > Len(output_files)
                   THEN Append(output_files, found)
                   ELSE output_files
              /\ UNCHANGED <<results, total_bytes, response_files,
                             response_jsonl_gcs_urls, streamed, put_log,
                             upload_errors>>
         [] OTHER ->
              \E ends \in {"ok", "raise"},
                 mirror \in {m \in BOOLEAN : m => fetch_input.save_response_jsonl_to_gcs} :
                LET acc == CollectLines([results |-> results, bytes |-> total_bytes,
                                         aborted |-> FALSE], found.lines)
                    mirrored == /\ ends = "ok"
                                /\ mirror
                                /\ fetch_input.gcs_config # "none"
                                /\ fetch_input.save_response_jsonl_to_gcs
                IN  /\ fetch_pc' = "jobs"
                    /\ job_pos' = job_pos + 1
                    /\ output_files' =
                         IF keep_outputs /\ job_pos > Len(output_files)
                         THEN Append(output_files, found)
                         ELSE output_files
                    /\ response_files' =
                         Append(response_files,
                                normalize_file_uri(fetch_input.batch_names[job_pos]))
                    /\ streamed' = streamed \o found.lines
                    /\ results' = acc.results
                    /\ total_bytes' = acc.bytes
                    /\ response_jsonl_gcs_urls' =
                         IF mirrored
                         THEN Append(response_jsonl_gcs_urls,
                                     fetch_input.batch_names[job_pos])
                         ELSE response_jsonl_gcs_urls
                    /\ UNCHANGED <<put_log, upload_errors>>
  /\ UNCHANGED <<fetch_input, fetchRuns, fetch_response, bucket, notFetch>>

\* mutant of FetchCompleted: response_files lists a handle for every job
\* passed in, resolved or not
FetchCompletedListingEveryJob(res) ==
  [status |-> "completed",
   results |-> res,
   total_generated |-> Len(res),
   total_bytes |-> total_bytes,
   response_files |-> [k \in 1..Len(fetch_input.batch_names) |->
                         normalize_file_uri(fetch_input.batch_names[k])],
   response_jsonl_gcs_urls |-> response_jsonl_gcs_urls,
   batch_job_names |-> fetch_input.batch_names]

\* mutant of FetchCompleted: batch_job_names lists only the jobs whose
\* output file was resolved
FetchCompletedResolvedJobsOnly(res) ==
  [status |-> "completed",
   results |-> res,
   total_generated |-> Len(res),
   total_bytes |-> total_bytes,
   response_files |-> response_files,
   response_jsonl_gcs_urls |-> response_jsonl_gcs_urls,
   batch_job_names |-> SubSeq(fetch_input.batch_names, 1, Len(response_files))]

\* lines 1486-1497: the response
FetchCompleted(res) ==
  [status |-> "completed",
   results |-> res,
   total_generated |-> Len(res),
   total_bytes |-> total_bytes,
   response_files |-> response_files,
   response_jsonl_gcs_urls |-> response_jsonl_gcs_urls,
   batch_job_names |-> fetch_input.batch_names]

\* lines 1410-1497, no storage configured or nothing collected
FetchReturn ==
  /\ fetch_pc = "jobs"
  /\ job_pos > Len(fetch_input.batch_names)
  /\ fetch_input.gcs_config = "none" \/ results = <<>>
  /\ fetch_pc' = "returned"
  /\ fetch_response' = FetchCompleted(results)
  /\ UNCHANGED <<fetch_input, fetchLocals, fetchRuns, bucket, notFetch>>

\* lines 1410-1497 with storage: the items are uploaded, the list is
\* de-duplicated by URL and returned; init is what initialize_gcs_client
\* does, failing the item whose upload raises (-1: none)
FetchUpload ==
  /\ fetch_pc = "jobs"
  /\ job_pos > Len(fetch_input.batch_names)
  /\ fetch_input.gcs_config # "none" /\ results # <<>>
  /\ \E init \in {"ok", "raise"} :
       IF init = "raise"
       THEN /\ fetch_pc' = "raised"
            /\ UNCHANGED <<results, put_log, bucket, fetch_response,
                           upload_errors>>
       ELSE \E failing \in (0 - 1)..(Len(results) - 1) :
              LET st == UploadFrom(fetch_input, results, 0, failing,
                          [uploaded |-> <<>>, bucket |-> bucket, puts |-> put_log])
              IN  /\ results' = DedupByUrl(st.uploaded)
                  /\ bucket' = st.bucket
                  /\ put_log' = st.puts
                  /\ upload_errors' = Len(results) - Len(st.uploaded)
                  /\ fetch_pc' = "returned"
                  /\ fetch_response' = FetchCompleted(DedupByUrl(st.uploaded))
  /\ UNCHANGED <<fetch_input, job_pos, total_bytes, response_files,
                 response_jsonl_gcs_urls, streamed, output_files, fetchRuns,
                 notFetch>>

\* a second invocation with the same input, after a first one that
\* completed: the locals start afresh (lines 1330-1336); the bucket and
\* the jobs' output files are what they were
FetchAgain ==
  /\ fetch_pc = "returned"
  /\ fetch_response.status = "completed"
  /\ keep_outputs
  /\ fetch_run = 1
  /\ fetch_run' = 2
  /\ first_run' = [bucket |-> bucket, upload_errors |-> upload_errors,
                   results |-> fetch_response.results]
  /\ fetch_pc' = "jobs"
  /\ job_pos' = 1
  /\ results' = <<>>
  /\ total_bytes' = 0
  /\ response_files' = <<>>
  /\ response_jsonl_gcs_urls' = <<>>
  /\ streamed' = <<>>
  /\ upload_errors' = 0
  /\ fetch_response' = NoResponse
  /\ UNCHANGED <<fetch_input, put_log, output_files, keep_outputs, bucket,
                 notFetch>>

FetchNext ==
  \/ FetchReject
  \/ FetchBegin
  \/ FetchJob
  \/ FetchReturn
  \/ FetchUpload

(***************************************************************************)
(* The generation handlers handler dispatches to: handle_automatic_mode    *)
(* (lines 319-436), handle_semi_automatic_mode (438-558),                  *)
(* handle_docs_semi_automatic_mode (560-652) and handle_text_image_mode    *)
(* (658-750).  storage_calls and model_calls count the calls the invoked   *)
(* handler made to storage (list, download, upload) and to the model API.  *)
(***************************************************************************)
GenModes == {"automatic", "semi-automatic", "docs_semi_automatic", "text-image"}

\* 'prompt' is missing, whitespace, shorter than three characters, or valid;
\* 'prompts' is missing, an empty list, a list of one whitespace entry, or
\* a list of MaxPrompts valid prompts
GenInputs ==
  [mode : GenModes,
   prompt : {"missing", "blank", "short", "ok"},
   prompts : {"missing", "empty", "blank", "ok"},
   prompt_template : BOOLEAN,
   folder : BOOLEAN,
   gcs_config : BOOLEAN,
   api_key : BOOLEAN,
   output_gcs_prefix : BOOLEAN,
   images : 0..MaxImages,
   num_variations : 0..MaxVariations]

NoGenInput ==
  [mode |-> "none", prompt |-> "missing", prompts |-> "missing",
   prompt_template |-> FALSE, folder |-> FALSE, gcs_config |-> FALSE,
   api_key |-> FALSE, output_gcs_prefix |-> FALSE, images |-> 0,
   num_variations |-> 0]

GenFresh ==
  /\ gen_response = NoResponse
  /\ gen_results = <<>>
  /\ gen_done = {}
  /\ gen_failed = {}
  /\ storage_calls = 0
  /\ model_calls = 0

GenIdle == gen_pc = "idle" /\ gen_input = NoGenInput /\ GenFresh

\* the list input_data['prompts'] holds
PromptsList(inp) ==
  CASE inp.prompts = "ok" -> [k \in 1..MaxPrompts |-> "ok"]
    [] inp.prompts = "blank" -> <<"blank">>
    [] OTHER -> <<>>

\* lines 329-341: 'prompt', or the first entry of 'prompts' when 'prompt'
\* is missing or blank
AutomaticPrompt(inp) ==
  IF inp.prompt \in {"missing", "blank"} /\ PromptsList(inp) # <<>>
  THEN PromptsList(inp)[1]
  ELSE inp.prompt

\* lines 687-693: the non-blank entries of 'prompts', else the expansion of
\* the template
TextPromptList(inp) ==
  LET kept == SelectSeq(PromptsList(inp), LAMBDA p : p # "blank")
  IN  IF kept = <<>> /\ inp.prompt_template THEN <<"ok">> ELSE kept

GenFailed(msg) ==
  [status |-> "failed", error |-> msg, results |-> <<>>, total |-> 0]

\* the failure the handler returns before it calls anything, or NoResponse
\* (lines 344-372, 450-468, 569-583, 683-696)
GenRejection(inp) ==
  CASE inp.mode = "automatic" ->
         IF AutomaticPrompt(inp) \in {"missing", "blank"}
         THEN GenFailed("Missing or empty prompt")
         ELSE IF AutomaticPrompt(inp) = "short"
         THEN GenFailed("Prompt too short")
         ELSE IF ~inp.folder \/ ~inp.gcs_config
         THEN GenFailed("Missing folder or GCS config")
         ELSE NoResponse
    [] inp.mode = "semi-automatic" ->
         IF PromptsList(inp) = <<>>
         THEN GenFailed("Missing or empty prompts")
         ELSE IF ~inp.folder \/ ~inp.gcs_config
         THEN GenFailed("Missing folder or GCS config")
         ELSE NoResponse
    [] inp.mode = "docs_semi_automatic" ->
         IF ~inp.output_gcs_prefix
         THEN GenFailed("requires config.output_gcs_prefix")
         ELSE IF ~inp.folder \/ ~inp.gcs_config
         THEN GenFailed("Missing folder or GCS config")
         ELSE NoResponse
    [] OTHER ->
         IF ~inp.api_key
         THEN Failed("Missing GEMINI_API_KEY")
         ELSE IF ~inp.gcs_config
         THEN Failed("Missing GCS config for upload")
         ELSE IF TextPromptList(inp) = <<>>
         THEN Failed("No prompts provided for text-image mode")
         ELSE NoResponse

\* line 666: num_variations = max(1, ...)
TextVariations(inp) == IF inp.num_variations >= 1 THEN inp.num_variations ELSE 1

genCalls == <<storage_calls, model_calls>>

genTasks == <<gen_done, gen_failed>>

\* the handler returns a failure of input validation
GenReject ==
  /\ gen_pc = "start"
  /\ GenRejection(gen_input) # NoResponse
  /\ gen_response' = GenRejection(gen_input)
  /\ gen_pc' = "returned"
  /\ UNCHANGED <<gen_input, gen_results, genTasks, genCalls, notGen>>

\* lines 374-387, 470-481, 585-596: the storage client is made and the
\* folder listed (either may raise); no image or no API key ends the call
GenListImages ==
  /\ gen_pc = "start"
  /\ gen_input.mode # "text-image"
  /\ GenRejection(gen_input) = NoResponse
  /\ \E listing \in {"raise", "ok"} :
       IF listing = "raise"
       THEN /\ gen_pc' = "raised"
            /\ UNCHANGED <<gen_response, gen_results, storage_calls>>
       ELSE /\ storage_calls' = storage_calls + 1
            /\ IF gen_input.images = 0
               THEN /\ gen_response' = GenFailed("No images found")
                    /\ gen_pc' = "returned"
                    /\ UNCHANGED gen_results
               ELSE IF ~gen_input.api_key
               THEN /\ gen_response' = GenFailed("Missing GEMINI_API_KEY")
                    /\ gen_pc' = "returned"
                    /\ UNCHANGED gen_results
               ELSE /\ gen_pc' = "tasks"
                    /\ gen_results' = [k \in 1..gen_input.images |-> <<>>]
                    /\ UNCHANGED gen_response
  /\ UNCHANGED <<gen_input, genTasks, model_calls, notGen>>

\* lines 698-704: the storage client is made; the loop over prompt and
\* variation starts
GenTextBegin ==
  /\ gen_pc = "start"
  /\ gen_input.mode = "text-image"
  /\ GenRejection(gen_input) = NoResponse
  /\ \E client \in {"raise", "ok"} :
       IF client = "raise"
       THEN /\ gen_response' = Failed("Failed to init GCS client")
            /\ gen_pc' = "returned"
            /\ UNCHANGED gen_results
       ELSE /\ gen_pc' = "tasks"
            /\ gen_results' =
                 [k \in 1..(Len(TextPromptList(gen_input))
                              * TextVariations(gen_input)) |-> <<>>]
            /\ UNCHANGED gen_response
  /\ UNCHANGED <<gen_input, genTasks, genCalls, notGen>>

\* what happens to one image of handle_automatic_mode: every call succeeds,
\* or the call named in stage raises, for generation and upload at
\* variation at
ImageOutcomes(inp) ==
  {[stage |-> "none", at |-> 0], [stage |-> "download", at |-> 0]}
    \cup [stage : {"generate", "upload"}, at : 0..(inp.num_variations - 1)]

\* mutant of process_image: the error record does not name the image
process_image_without_index(inp, idx, out) ==
  IF out.stage = "none"
  THEN [v \in 1..inp.num_variations |->
          [original_index |-> idx, variation |-> v - 1,
           gcs_url |-> <<idx, v - 1>>]]
  ELSE <<[error |-> out.stage]>>

\* process_image (lines 392-423): the records of image idx
process_image(inp, idx, out) ==
  IF out.stage = "none"
  THEN [v \in 1..inp.num_variations |->
          [original_index |-> idx, variation |-> v - 1,
           gcs_url |-> <<idx, v - 1>>]]
  ELSE <<[original_index |-> idx, error |-> out.stage]>>

\* the calls process_image made to the model API and to storage
ModelCallsOf(inp, out) ==
  CASE out.stage = "none" -> inp.num_variations
    [] out.stage = "download" -> 0
    [] OTHER -> out.at + 1

StorageCallsOf(inp, out) ==
  CASE out.stage = "none" -> 1 + inp.num_variations
    [] out.stage = "download" -> 1
    [] out.stage = "generate" -> 1 + out.at
    [] OTHER -> 2 + out.at

\* one task of asyncio.gather (lines 425-426) runs to its end; the tasks
\* end in any order
GenProcessImage ==
  /\ gen_pc = "tasks"
  /\ gen_input.mode = "automatic"
  /\ \E k \in (1..gen_input.images) \ gen_done :
       \E out \in ImageOutcomes(gen_input) :
         /\ gen_results' =
              [gen_results EXCEPT ![k] = process_image(gen_input, k - 1, out)]
         /\ gen_done' = gen_done \cup {k}
         /\ gen_failed' =
              IF out.stage = "none" THEN gen_failed ELSE gen_failed \cup {k}
         /\ model_calls' = model_calls + ModelCallsOf(gen_input, out)
         /\ storage_calls' = storage_calls + StorageCallsOf(gen_input, out)
  /\ UNCHANGED <<gen_pc, gen_input, gen_response, notGen>>

\* process_image_prompt (lines 487-545, 601-641): the download raises, or
\* each prompt yields a record, an error record for the prompts in failing
process_image_prompt(inp, img_idx, download, failing) ==
  IF download = "raise"
  THEN <<[image_index |-> img_idx, error |-> "download"]>>
  ELSE [p \in 1..Len(PromptsList(inp)) |->
          IF p \in failing
          THEN [image_index |-> img_idx, error |-> "generate"]
          ELSE [image_index |-> img_idx, prompt_index |-> p - 1,
                generation_index |-> 0, gcs_url |-> <<img_idx, p - 1>>]]

\* one task of the fan-out of the semi-automatic handlers runs to its end
GenProcessImagePrompts ==
  /\ gen_pc = "tasks"
  /\ gen_input.mode \in {"semi-automatic", "docs_semi_automatic"}
  /\ \E k \in (1..gen_input.images) \ gen_done :
       \E download \in {"raise", "ok"} :
         \E failing \in SUBSET (1..Len(PromptsList(gen_input))) :
           /\ download = "raise" => failing = {}
           /\ gen_results' =
                [gen_results EXCEPT
                   ![k] = process_image_prompt(gen_input, k - 1, download,
                                               failing)]
           /\ gen_done' = gen_done \cup {k}
           /\ gen_failed' =
                IF download = "raise" \/ failing # {}
                THEN gen_failed \cup {k} ELSE gen_failed
           /\ storage_calls' =
                storage_calls + 1
                  + (IF download = "raise" THEN 0
                     ELSE Len(PromptsList(gen_input)) - Cardinality(failing))
           /\ model_calls' =
                model_calls + (IF download = "raise" THEN 0
                               ELSE Len(PromptsList(gen_input)))
  /\ UNCHANGED <<gen_pc, gen_input, gen_response, notGen>>

\* lines 706-741: the next iteration of the loop over prompt and variation
\* of handle_text_image_mode: one image is generated and uploaded, or no
\* image comes back, or a call raises
GenTextIteration ==
  /\ gen_pc = "tasks"
  /\ gen_input.mode = "text-image"
  /\ Cardinality(gen_done) < Len(gen_results)
  /\ LET k == Cardinality(gen_done) + 1
         prompt_index == (k - 1) \div TextVariations(gen_input)
         var == (k - 1) % TextVariations(gen_input)
     IN  \E out \in {"image", "empty", "generate", "upload"} :
           /\ gen_results' =
                [gen_results EXCEPT
                   ![k] = CASE out = "image" ->
                                 <<[original_index |-> prompt_index,
                                    variation |-> var,
                                    gcs_url |-> <<prompt_index, var>>]>>
                            [] out = "empty" -> <<>>
                            [] OTHER ->
                                 <<[original_index |-> prompt_index,
                                    variation |-> var, error |-> out]>>]
           /\ gen_done' = gen_done \cup {k}
           /\ gen_failed' =
                IF out \in {"generate", "upload"}
                THEN gen_failed \cup {k} ELSE gen_failed
           /\ model_calls' = model_calls + 1
           /\ storage_calls' =
                storage_calls + (IF out \in {"image", "upload"} THEN 1 ELSE 0)
  /\ UNCHANGED <<gen_pc, gen_input, gen_response, notGen>>

\* [item for sublist in results_list for item in sublist]
RECURSIVE Flatten(_)
Flatten(lists) ==
  IF Len(lists) = 0 THEN <<>> ELSE lists[1] \o Flatten(Tail(lists))

\* the records of a result list that carry a generated image
WithImage(res) ==
  {k \in 1..Len(res) : "gcs_url" \in DOMAIN res[k] \/ "image" \in DOMAIN res[k]}

\* the total_generated of a completed response: handle_automatic_mode
\* returns len(results) (line 434); the semi-automatic handlers count the
\* records with a gcs_url or image (lines 553, 648); handle_text_image_mode
\* counts one per record appended with a gcs_url (lines 728-735)
total_generated(inp, res) ==
  IF inp.mode = "automatic" THEN Len(res) ELSE Cardinality(WithImage(res))

\* lines 425-436, 547-558, 643-652, 743-750: every task has ended
GenReturn ==
  /\ gen_pc = "tasks"
  /\ Cardinality(gen_done) = Len(gen_results)
  /\ gen_response' =
       [status |-> "completed",
        results |-> Flatten(gen_results),
        total_generated |-> total_generated(gen_input, Flatten(gen_results))]
  /\ gen_pc' = "returned"
  /\ UNCHANGED <<gen_input, gen_results, genTasks, genCalls, notGen>>

(***************************************************************************)
(* handle_automatic_mode_batch (batch_handler.py): the upload of the       *)
(* images under asyncio.Semaphore(max_concurrent), lines 86-142.           *)
(* upload_tasks counts the upload_single_image tasks at each position:     *)
(* "waiting" before the semaphore, "inside" the async with block, "done"   *)
(* returned, "raised" ended with an exception.                             *)
(***************************************************************************)
TaskPositions == {"waiting", "inside", "done", "raised"}

NoTasks == [p \in TaskPositions |-> 0]

UploadIdle ==
  /\ upload_pc = "idle"
  /\ semaphore = 0
  /\ upload_tasks = NoTasks
  /\ upload_response = NoResponse

\* lines 87-88 and 131: the semaphore is made and one task per image created
UploadInit ==
  /\ upload_pc = "gather"
  /\ semaphore = max_concurrent
  /\ \E n \in 1..MaxUploadImages :
       upload_tasks = [NoTasks EXCEPT !["waiting"] = n]
  /\ upload_response = NoResponse

\* mutant of SemLocked: the semaphore admits every task
SemNeverLocked == FALSE

\* asyncio.Semaphore: no permit is left
SemLocked == semaphore = 0

\* a task moves from position from to position to
Moved(from, to) ==
  [upload_tasks EXCEPT ![from] = @ - 1, ![to] = @ + 1]

\* line 92, async with semaphore: a task takes a permit
UploadAcquire ==
  /\ upload_tasks["waiting"] > 0
  /\ ~SemLocked
  /\ semaphore' = semaphore - 1
  /\ upload_tasks' = Moved("waiting", "inside")
  /\ UNCHANGED <<upload_pc, upload_response, notUpload>>

\* lines 93-124: download and upload succeeded; leaving the block gives
\* the permit back
UploadDone ==
  /\ upload_tasks["inside"] > 0
  /\ semaphore' = semaphore + 1
  /\ upload_tasks' = Moved("inside", "done")
  /\ UNCHANGED <<upload_pc, upload_response, notUpload>>

\* lines 125-127: download or upload raised; the exception leaves the
\* block, which gives the permit back
UploadRaise ==
  /\ upload_tasks["inside"] > 0
  /\ semaphore' = semaphore + 1
  /\ upload_tasks' = Moved("inside", "raised")
  /\ UNCHANGED <<upload_pc, upload_response, notUpload>>

\* lines 130-135: gather returns once every task has returned
GatherReturn ==
  /\ upload_pc = "gather"
  /\ upload_tasks["waiting"] = 0
  /\ upload_tasks["inside"] = 0
  /\ upload_tasks["raised"] = 0
  /\ upload_pc' = "uploaded"
  /\ UNCHANGED <<semaphore, upload_tasks, upload_response, notUpload>>

\* lines 136-142: gather raises the first exception of a task; the handler
\* returns while the other tasks go on
GatherFailed ==
  /\ upload_pc = "gather"
  /\ upload_tasks["raised"] > 0
  /\ upload_pc' = "returned"
  /\ upload_response' =
       GenFailed("Failed to upload images to Gemini File API")
  /\ UNCHANGED <<semaphore, upload_tasks, notUpload>>

(***************************************************************************)
(* handler (lines 41-71): the dispatch on input_data['mode'].              *)
(***************************************************************************)
BatchModes == {"automatic_batch", "docs_automatic"}

Modes ==
  GenModes \cup BatchModes \cup {"fetch_results", "cleanup_group"}

\* the mode of a job: a known mode, none, or a string handler does not know
ModeInputs == Modes \cup {"missing", "unknown"}

HandlerIdle ==
  /\ handler_pc = "idle"
  /\ mode = "missing"
  /\ handler_response = NoResponse

\* lines 51-54, 59-60, 65-66: one of the generation handlers is called
HandlerGenerate ==
  /\ handler_pc = "received"
  /\ mode \in GenModes
  /\ gen_input' \in {inp \in GenInputs : inp.mode = mode}
  /\ gen_pc' = "start"
  /\ handler_pc' = "called"
  /\ UNCHANGED <<mode, handler_response, gen_response, gen_results, genTasks,
                 genCalls, keyVars, batchVars, cleanupVars, fetchVars,
                 uploadVars, utilVars>>

\* lines 55-58: handle_automatic_batch_mode is called
HandlerBatch ==
  /\ handler_pc = "received"
  /\ mode \in BatchModes
  /\ batch_pc' = "start"
  /\ handler_pc' = "called"
  /\ UNCHANGED <<mode, handler_response, loopInputs, loopPos, request_keys,
                 request_count, closureVars, batch_response, soft_faults,
                 keyVars, cleanupVars, fetchVars, genVars, uploadVars, utilVars>>

\* lines 61-62: handle_fetch_results_mode is called
HandlerFetch ==
  /\ handler_pc = "received"
  /\ mode = "fetch_results"
  /\ fetch_input' \in FetchInputs
  /\ fetch_pc' = "start"
  /\ handler_pc' = "called"
  /\ UNCHANGED <<mode, handler_response, fetchLocals, fetchRuns,
                 fetch_response, keyVars, batchVars, cleanupVars, genVars,
                 uploadVars, utilVars>>

\* lines 63-64: handle_cleanup_group is called
HandlerCleanup ==
  /\ handler_pc = "received"
  /\ mode = "cleanup_group"
  /\ cleanup_input' \in CleanupInputs
  /\ cleanup_pc' = "start"
  /\ handler_pc' = "called"
  /\ UNCHANGED <<mode, handler_response, cleanup_handles, cleanupCounters,
                 cleanup_response, bucket, gcs_delete_calls, cleanupGemini,
                 keyVars, batchVars, fetchVars, genVars, uploadVars, utilVars>>

\* lines 67-71: any other mode
HandlerInvalidMode ==
  /\ handler_pc = "received"
  /\ mode \notin Modes
  /\ handler_response' = [error |-> "Invalid mode", refresh_worker |-> TRUE]
  /\ handler_pc' = "returned"
  /\ UNCHANGED <<mode, keyVars, batchVars, cleanupVars, fetchVars, genVars,
                 uploadVars, utilVars>>

\* where the called handler stands, and what it returned
Callee ==
  CASE mode \in GenModes -> [pc |-> gen_pc, response |-> gen_response]
    [] mode \in BatchModes -> [pc |-> batch_pc, response |-> batch_response]
    [] mode = "fetch_results" -> [pc |-> fetch_pc, response |-> fetch_response]
    [] OTHER -> [pc |-> cleanup_pc, response |-> cleanup_response]

\* return await ...: handler returns what the called handler returned
HandlerReturn ==
  /\ handler_pc = "called"
  /\ Callee.pc = "returned"
  /\ handler_response' = Callee.response
  /\ handler_pc' = "returned"
  /\ UNCHANGED <<mode, keyVars, batchVars, cleanupVars, fetchVars, genVars,
                 uploadVars, utilVars>>

\* handler has no try: an exception of the called handler leaves it
HandlerRaise ==
  /\ handler_pc = "called"
  /\ Callee.pc = "raised"
  /\ handler_pc' = "raised"
  /\ UNCHANGED <<mode, handler_response, keyVars, batchVars, cleanupVars,
                 fetchVars, genVars, uploadVars, utilVars>>

(***************************************************************************)
(* http_get_with_retry (lines 1251-1274).                                  *)
(***************************************************************************)
\* what one client.get can end with: a response with a status code, or an
\* httpx.HTTPError (connection refused, timeout)
StatusCodes == {200, 302, 404, 503}

HTTPErrors == {"ConnectError", "ReadTimeout"}

GetOutcomes ==
  {[status |-> c, error |-> "none"] : c \in StatusCodes}
    \cup {[status |-> 0, error |-> e] : e \in HTTPErrors}

\* None
NoError == [attempt |-> 0, error |-> "none"]

NoOutcome == [kind |-> "none", attempt |-> 0, status |-> 0, error |-> "none"]

HttpIdle ==
  /\ http_pc = "idle"
  /\ attempts = 0
  /\ delay = 0
  /\ attempt = 0
  /\ last_status = 0
  /\ last_error = NoError
  /\ http_outcome = NoOutcome
  /\ get_log = <<>>
  /\ sleep_log = <<>>

\* lines 1259-1261: the call with its arguments, before the first attempt
HttpInit ==
  /\ http_pc = "loop"
  /\ attempts \in 0..MaxAttempts
  /\ delay \in 1..MaxDelay
  /\ attempt = 1
  /\ last_status = 0
  /\ last_error = NoError
  /\ http_outcome = NoOutcome
  /\ get_log = <<>>
  /\ sleep_log = <<>>

\* mutant of Backoff: the same wait after every attempt
ConstantBackoff(d, k) == d

\* line 1270: the sleep after the failed attempt k
Backoff(d, k) == d * k

\* lines 1261-1270: one iteration of the loop: the GET, and after a
\* failure that is not the last attempt the sleep
HttpAttempt ==
  /\ http_pc = "loop"
  /\ attempt <= attempts
  /\ \E out \in GetOutcomes :
       /\ get_log' = Append(get_log, out)
       /\ last_status' = IF out.error = "none" THEN out.status ELSE last_status
       /\ last_error' = IF out.error # "none"
                        THEN [attempt |-> attempt, error |-> out.error]
                        ELSE last_error
       /\ IF out.status = 200
          THEN /\ http_pc' = "returned"
               /\ http_outcome' = [kind |-> "response", attempt |-> attempt,
                                   status |-> out.status, error |-> "none"]
               /\ UNCHANGED <<attempt, sleep_log>>
          ELSE /\ sleep_log' = IF attempt < attempts
                               THEN Append(sleep_log, Backoff(delay, attempt))
                               ELSE sleep_log
               /\ attempt' = attempt + 1
               /\ UNCHANGED <<http_pc, http_outcome>>
  /\ UNCHANGED <<attempts, delay, notHttp>>

\* lines 1272-1274: the loop ended without a 200: the last HTTPError caught
\* is raised again if there was one, else a ValueError whose message holds
\* the URL and last_status
HttpExhausted ==
  /\ http_pc = "loop"
  /\ attempt > attempts
  /\ http_pc' = "raised"
  /\ http_outcome' =
       IF last_error # NoError
       THEN [kind |-> "HTTPError", attempt |-> last_error.attempt,
             status |-> 0, error |-> last_error.error]
       ELSE [kind |-> "ValueError", attempt |-> attempts,
             status |-> last_status, error |-> "none"]
  /\ UNCHANGED <<attempts, delay, attempt, last_status, last_error, get_log,
                 sleep_log, notHttp>>

(***************************************************************************)
(* expand_prompt_template (lines 1164-1189).                               *)
(***************************************************************************)
\* the match of r"\{([^{}]+)\}" that starts at position i, as the position
\* of its closing brace, or 0: the class excludes both braces, so the first
\* brace after i must be "}" and at least one character must lie between
GroupEnd(t, i) ==
  LET braces == {j \in (i + 1)..Len(t) : t[j] \in {"{", "}"}}
      first == CHOOSE j \in braces : \A h \in braces : j <= h
  IN  IF t[i] # "{" \/ braces = {} THEN 0
      ELSE IF t[first] = "}" /\ first >= i + 2 THEN first ELSE 0

\* re.finditer: the matches from left to right, none overlapping
RECURSIVE FindIter(_, _)
FindIter(t, from) ==
  LET starts == {i \in from..Len(t) : GroupEnd(t, i) > 0}
      i == CHOOSE k \in starts : \A h \in starts : k <= h
  IN  IF starts = {} THEN <<>>
      ELSE <<[start |-> i, end |-> GroupEnd(t, i)]>>
             \o FindIter(t, GroupEnd(t, i) + 1)

\* str.split(sep)
RECURSIVE Split(_, _)
Split(str, sep) ==
  LET seps == {k \in 1..Len(str) : str[k] = sep}
      k == CHOOSE j \in seps : \A h \in seps : j <= h
  IN  IF seps = {} THEN <<str>>
      ELSE <<SubSeq(str, 1, k - 1)>> \o Split(SubSeq(str, k + 1, Len(str)), sep)

\* str.strip()
Strip(str) ==
  LET inked == {k \in 1..Len(str) : str[k] # " "}
      lo == CHOOSE k \in inked : \A h \in inked : k <= h
      hi == CHOOSE k \in inked : \A h \in inked : k >= h
  IN  IF inked = {} THEN <<>> ELSE SubSeq(str, lo, hi)

\* lines 1174-1175: [s.strip() for s in m.group(1).split(",") if s.strip()]
\* or [""]
Options(inner) ==
  LET items == Split(inner, ",")
      stripped == [k \in 1..Len(items) |-> Strip(items[k])]
      options == SelectSeq(stripped, LAMBDA o : o # <<>>)
  IN  IF options = <<>> THEN <<<<>>>> ELSE options

\* lines 1172-1177: the loop over the matches
MatchTexts(t) ==
  LET ms == FindIter(t, 1)
  IN  [g \in 1..Len(ms) |-> SubSeq(t, ms[g].start + 1, ms[g].end - 1)]

Segments(t) ==
  LET ms == FindIter(t, 1)
  IN  [g \in 1..(Len(ms) + 1) |->
         SubSeq(t, IF g = 1 THEN 1 ELSE ms[g - 1].end + 1,
                   IF g > Len(ms) THEN Len(t) ELSE ms[g].start - 1)]

Variables(t) ==
  LET texts == MatchTexts(t)
  IN  [g \in 1..Len(texts) |-> Options(texts[g])]

\* mutant of build: only the first option of a group is taken
RECURSIVE build_first_option(_, _, _, _)
build_first_option(idx, current, segs, opts) ==
  IF idx = Len(opts) THEN <<current \o segs[idx + 1]>>
  ELSE build_first_option(idx + 1,
                          current \o segs[idx + 1] \o opts[idx + 1][1],
                          segs, opts)

\* lines 1182-1187: build(idx, current), with the lists it reads (indexes
\* counted from 0 as in the source)
RECURSIVE build(_, _, _, _)
build(idx, current, segs, opts) ==
  IF idx = Len(opts) THEN <<current \o segs[idx + 1]>>
  ELSE Flatten([o \in 1..Len(opts[idx + 1]) |->
                  build(idx + 1,
                        current \o segs[idx + 1] \o opts[idx + 1][o],
                        segs, opts)])

expand_prompt_template(t) ==
  IF t = <<>> THEN <<>>
  ELSE IF Variables(t) = <<>> THEN <<t>>
  ELSE build(0, <<>>, Segments(t), Variables(t))

\* the pieces templates are made of: text, groups of one and more options,
\* options with blanks and empty items, the empty group, stray braces
Pieces ==
  {<<"a">>, <<" ">>, <<"{">>, <<"}">>,
   <<"{", "}">>, <<"{", " ", "}">>, <<"{", "b", "}">>,
   <<"{", "a", ",", "b", "}">>, <<"{", " ", "a", ",", ",", "c", " ", "}">>}

Templates ==
  {Flatten(ps) : ps \in UNION {[1..n -> Pieces] : n \in 0..MaxPieces}}

ExpandFresh ==
  /\ matches = <<>>
  /\ segments = <<>>
  /\ variables = <<>>
  /\ expanded = <<>>

ExpandIdle == expand_pc = "idle" /\ template = <<>> /\ ExpandFresh

ExpandInit == expand_pc = "called" /\ template \in Templates /\ ExpandFresh

\* lines 1165-1166: an empty template yields no prompt
ExpandEmpty ==
  /\ expand_pc = "called"
  /\ template = <<>>
  /\ expand_pc' = "returned"
  /\ expanded' = expand_prompt_template(template)
  /\ UNCHANGED <<template, matches, segments, variables, notExpand>>

\* lines 1172-1179: the loop over the matches finds none: the template
\* itself is the one prompt
ExpandNoGroup ==
  /\ expand_pc = "called"
  /\ template # <<>>
  /\ Variables(template) = <<>>
  /\ expand_pc' = "returned"
  /\ matches' = MatchTexts(template)
  /\ segments' = Segments(template)
  /\ variables' = Variables(template)
  /\ expanded' = expand_prompt_template(template)
  /\ UNCHANGED <<template, notExpand>>

\* lines 1172-1189: the loop over the matches, then build(0, "")
ExpandBuild ==
  /\ expand_pc = "called"
  /\ template # <<>>
  /\ Variables(template) # <<>>
  /\ expand_pc' = "returned"
  /\ matches' = MatchTexts(template)
  /\ segments' = Segments(template)
  /\ variables' = Variables(template)
  /\ expanded' = expand_prompt_template(template)
  /\ UNCHANGED <<template, notExpand>>

(***************************************************************************)
(* generate_image_sync (lines 763-965).                                    *)
(***************************************************************************)
\* the parts of candidates[0] of a chunk: text, or inline data with its
\* bytes; a chunk with no candidate or no content has no part
PartKinds == {"text", "image"}

ChunkShapes == UNION {[1..n -> PartKinds] : n \in 0..MaxParts}

\* the bytes of the part p of chunk c, different for every part
BytesAt(c, p) == c * (MaxParts + 1) + p

ResponseStreams ==
  {[c \in 1..Len(shapes) |->
      [p \in 1..Len(shapes[c]) |->
         [kind |-> shapes[c][p], data |-> BytesAt(c, p)]]] :
     shapes \in UNION {[1..n -> ChunkShapes] : n \in 0..MaxChunks}}

NoBytes == [kind |-> "none", data |-> 0]

StreamFresh ==
  /\ gis_outcome = NoBytes
  /\ consumed = 0
  /\ stream_calls = 0

StreamIdle ==
  /\ gis_pc = "idle"
  /\ prompt_blank = FALSE
  /\ stream = <<>>
  /\ stream_error_at = 0
  /\ StreamFresh

StreamInit ==
  /\ gis_pc = "called"
  /\ prompt_blank \in BOOLEAN
  /\ stream \in ResponseStreams
  /\ stream_error_at \in 0..(Len(stream) + 1)
  /\ StreamFresh

InlineParts(chunk) == {p \in 1..Len(chunk) : chunk[p].kind = "image"}

\* mutant of FirstImage: the last part with inline data of the chunk
LastImage(chunk) ==
  CHOOSE p \in InlineParts(chunk) : \A q \in InlineParts(chunk) : p >= q

\* lines 856-877: the loop over the parts returns at the first part whose
\* inline_data holds data
FirstImage(chunk) ==
  CHOOSE p \in InlineParts(chunk) : \A q \in InlineParts(chunk) : p <= q

\* lines 771-772: a blank prompt is refused before anything is sent
GisBlankPrompt ==
  /\ gis_pc = "called"
  /\ prompt_blank
  /\ gis_pc' = "raised"
  /\ gis_outcome' = [kind |-> "ValueError: prompt empty", data |-> 0]
  /\ UNCHANGED <<prompt_blank, stream, stream_error_at, consumed,
                 stream_calls, notStream>>

\* lines 836-840: the one call of generate_content_stream
GisOpenStream ==
  /\ gis_pc = "called"
  /\ ~prompt_blank
  /\ gis_pc' = "streaming"
  /\ stream_calls' = stream_calls + 1
  /\ UNCHANGED <<prompt_blank, gis_outcome, stream, stream_error_at, consumed,
                 notStream>>

\* lines 836-931: the stream yields its next chunk; the parts of its first
\* candidate are read in order and the bytes of the first part with inline
\* data are returned at once
GisChunk ==
  /\ gis_pc = "streaming"
  /\ consumed < Len(stream)
  /\ stream_error_at # consumed + 1
  /\ consumed' = consumed + 1
  /\ IF InlineParts(stream[consumed + 1]) # {}
     THEN /\ gis_pc' = "returned"
          /\ gis_outcome' =
               [kind |-> "bytes",
                data |-> stream[consumed + 1][FirstImage(stream[consumed + 1])].data]
     ELSE UNCHANGED <<gis_pc, gis_outcome>>
  /\ UNCHANGED <<prompt_blank, stream, stream_error_at, stream_calls,
                 notStream>>

\* lines 933-940: the stream raises instead of yielding; the exception is
\* raised again as a ValueError
GisStreamError ==
  /\ gis_pc = "streaming"
  /\ stream_error_at = consumed + 1
  /\ gis_pc' = "raised"
  /\ gis_outcome' = [kind |-> "ValueError: generation failed", data |-> 0]
  /\ UNCHANGED <<prompt_blank, stream, stream_error_at, consumed,
                 stream_calls, notStream>>

\* lines 942-956: the stream ended and no image was found
GisNoImage ==
  /\ gis_pc = "streaming"
  /\ consumed = Len(stream)
  /\ stream_error_at # consumed + 1
  /\ gis_pc' = "raised"
  /\ gis_outcome' = [kind |-> "ValueError: no image data", data |-> 0]
  /\ UNCHANGED <<prompt_blank, stream, stream_error_at, consumed,
                 stream_calls, notStream>>

(***************************************************************************)
(* The names of generated images (upload_to_gcs_sync lines 1017-1048 and   *)
(* the handlers' paths) against _list_files_from_gcs_folder_sync (lines    *)
(* 975-999).                                                               *)
(***************************************************************************)
Contains(str, sub) == \E k \in 1..(Len(str) - Len(sub) + 1) : LitAt(str, k, sub)

EndsWith(str, suffix) ==
  /\ Len(suffix) <= Len(str)
  /\ SubSeq(str, Len(str) - Len(suffix) + 1, Len(str)) = suffix

\* str.lower() on the letters object names are written with
Lower(str) ==
  [k \in 1..Len(str) |->
     CASE str[k] = "P" -> "p" [] str[k] = "N" -> "n" [] str[k] = "G" -> "g"
       [] str[k] = "J" -> "j" [] OTHER -> str[k]]

\* the position of the last "/" of a path, 0 if it has none
LastSlash(path) ==
  LET at == {k \in 1..Len(path) : path[k] = "/"}
  IN  IF at = {} THEN 0 ELSE CHOOSE k \in at : \A h \in at : k >= h

\* path.split("/")[-1]
BaseName(path) == SubSeq(path, LastSlash(path) + 1, Len(path))

\* label_gemini, lines 1018-1030: a file name that holds _gemini or starts
\* with gemini- or gemini_ is kept, any other gets gemini- in front
label_gemini(path) ==
  LET fname == BaseName(path)
      dir_part == SubSeq(path, 1, LastSlash(path))
  IN  IF path = <<>> THEN path
      ELSE IF Contains(fname, <<"_", "g", "e", "m", "i", "n", "i">>) \/ StartsWith(fname, <<"g", "e", "m", "i", "n", "i", "-">>)
                \/ StartsWith(fname, <<"g", "e", "m", "i", "n", "i", "_">>)
      THEN path
      ELSE dir_part \o <<"g", "e", "m", "i", "n", "i", "-">> \o fname

\* upload_to_gcs_sync, lines 1032-1042: the name of the object written
UploadedName(cfg, blob_path) ==
  label_gemini((IF PathPrefix(cfg) # <<>> THEN PathPrefix(cfg) \o <<"/">>
                ELSE <<>>) \o blob_path)

Sep == <<"_">>

\* handle_automatic_mode, lines 401-404
AutomaticName(ts, idx, var) ==
  <<"j", "/">> \o Str(ts) \o Sep \o Str(idx) \o Sep \o Str(var) \o <<"_", "g", "e", "m", "i", "n", "i", ".", "j", "p", "g">>

\* handle_semi_automatic_mode, lines 505-516
SemiUniqueId(ts, img_idx, prompt_idx, gen_idx) ==
  Str(ts) \o Sep \o Str(img_idx) \o Sep \o Str(prompt_idx) \o Sep \o Str(gen_idx)

SemiDocsName(ts, img_idx, prompt_idx, gen_idx) ==
  <<"o", "/">> \o Str(img_idx) \o <<"/", "p", "r", "o", "m", "p", "t", "_">> \o Str(prompt_idx) \o <<"/", "g", "e", "n", "_">>
    \o Str(gen_idx) \o Sep \o SemiUniqueId(ts, img_idx, prompt_idx, gen_idx)
    \o <<"_", "g", "e", "m", "i", "n", "i", ".", "j", "p", "g">>

SemiName(ts, img_idx, prompt_idx, gen_idx) ==
  <<"j", "/", "s", "e", "m", "i", "_">> \o SemiUniqueId(ts, img_idx, prompt_idx, gen_idx) \o <<"_", "g", "e", "m", "i", "n", "i", ".", "j", "p", "g">>

\* handle_docs_semi_automatic_mode, lines 616-617
DocsName(ts, img_idx, prompt_idx, gen_idx) ==
  <<"o", "/", "g", "e", "m", "i", "n", "i", "-", "g", "e", "n", "_">> \o Str(img_idx) \o Sep \o Str(ts) \o Sep \o Str(prompt_idx)
    \o Sep \o Str(gen_idx) \o <<"_", "g", "e", "m", "i", "n", "i", ".", "j", "p", "g">>

\* build_text_image_path, lines 1159-1162 (ratio slug 1x1)
build_text_image_path(ts, prompt_index, var, image_idx) ==
  <<"j", "/", "p", "r", "o", "c", "e", "s", "s", "e", "d", "/", "t", "e", "x", "t", "-", "i", "m", "a", "g", "e", "/", "1", "x", "1", "/", "p", "r", "o", "m", "p", "t", "_">> \o Str(prompt_index) \o <<"/", "v", "a", "r", "i", "a", "t", "i", "o", "n", "_">> \o Str(var) \o Sep \o Str(ts)
    \o Sep \o Str(image_idx) \o <<".", "p", "n", "g">>

\* handle_fetch_results_mode, lines 1426-1452: the name of a result with
\* its _gemini label; with output_gcs_prefix the object is written as it is
FetchName(img, idx, docs) ==
  (IF docs THEN <<"o", "/">> ELSE <<"j", "/">>) \o ResultFileName(img, idx)

\* objects the user uploaded as inputs
UserUploads(cfg) ==
  {(IF PathPrefix(cfg) # <<>> THEN PathPrefix(cfg) \o <<"/">> ELSE <<>>) \o f :
     f \in {<<"j", "/", "a", ".", "j", "p", "g">>, <<"j", "/", "b", ".", "P", "N", "G">>}}

\* the folders a listing is asked for
Folders == {<<"j">>, <<"p", "/", "j">>, <<"o">>, <<"j", "/">>}

Extensions == {<<".", "j", "p", "g">>, <<".", "j", "p", "e", "g">>, <<".", "p", "n", "g">>, <<".", "w", "e", "b", "p">>}

\* str.rstrip("/")
RECURSIVE RStripSlash(_)
RStripSlash(str) ==
  IF str # <<>> /\ str[Len(str)] = "/"
  THEN RStripSlash(SubSeq(str, 1, Len(str) - 1)) ELSE str

\* lines 975-999: the object names whose URLs the listing returns
ListedNames(folder_path, blobs) ==
  {b \in blobs :
     /\ StartsWith(b, RStripSlash(folder_path) \o <<"/">>)
     /\ ~EndsWith(b, <<"/">>)
     /\ \E ext \in Extensions : EndsWith(Lower(b), ext)
     /\ ~Contains(BaseName(b), <<"_", "g", "e", "m", "i", "n", "i">>)}

NamesIdle ==
  /\ names_pc = "idle"
  /\ names_config = "plain"
  /\ objects = {}
  /\ outputs = {}
  /\ listed = {}

NamesInit ==
  /\ names_pc = "writing"
  /\ names_config \in {"plain", "prefixed"}
  /\ objects = UserUploads(names_config)
  /\ outputs = {}
  /\ listed = {}

NameIndexes == 0..MaxNameIndex

Stamps == 1..MaxStamp

\* the object name is written to the bucket as a generated image
Put(name) ==
  /\ names_pc = "writing"
  /\ Cardinality(outputs) < MaxOutputs
  /\ objects' = objects \cup {name}
  /\ outputs' = outputs \cup {name}
  /\ UNCHANGED <<names_pc, names_config, listed, notNames>>

WriteAutomatic ==
  \E ts \in Stamps, idx \in NameIndexes, var \in NameIndexes :
    Put(UploadedName(names_config, AutomaticName(ts, idx, var)))

WriteSemi ==
  \E ts \in Stamps, img_idx \in NameIndexes, gen_idx \in NameIndexes,
     docs \in BOOLEAN :
    Put(IF docs THEN SemiDocsName(ts, img_idx, 0, gen_idx)
        ELSE UploadedName(names_config, SemiName(ts, img_idx, 0, gen_idx)))

WriteDocs ==
  \E ts \in Stamps, img_idx \in NameIndexes, gen_idx \in NameIndexes :
    Put(DocsName(ts, img_idx, 0, gen_idx))

WriteTextImage ==
  \E ts \in Stamps, prompt_index \in NameIndexes, var \in NameIndexes :
    Put(UploadedName(names_config,
                     build_text_image_path(ts, prompt_index, var, 0)))

WriteFetch ==
  \E img \in Range(KeyFields), idx \in NameIndexes, docs \in BOOLEAN :
    Put(IF docs THEN FetchName(img, idx, TRUE)
        ELSE UploadedName(names_config, FetchName(img, idx, FALSE)))

\* _list_files_from_gcs_folder_sync on a folder of the bucket
ListFolder ==
  /\ names_pc = "writing"
  /\ \E folder_path \in Folders : listed' = ListedNames(folder_path, objects)
  /\ names_pc' = "listed"
  /\ UNCHANGED <<names_config, objects, outputs, notNames>>

(***************************************************************************)
(* stream_jsonl_with_retry (lines 1277-1304) as handle_fetch_results_mode   *)
(* consumes it (lines 1366-1400).                                          *)
(***************************************************************************)
\* the output files behind a download URL
OutputFiles == UNION {[1..n -> OutputLines] : n \in 0..MaxFetchLines}

JsonlIdle ==
  /\ jsonl_pc = "idle"
  /\ jsonl_file = <<>>
  /\ jsonl_attempt = 1
  /\ yielded = <<>>
  /\ jsonl_results = <<>>
  /\ jsonl_bytes = 0

\* lines 1277-1289 and 1356-1367: the generator is created, nothing read
JsonlInit ==
  /\ jsonl_pc = "attempt"
  /\ jsonl_file \in OutputFiles
  /\ jsonl_attempt = 1
  /\ yielded = <<>>
  /\ jsonl_results = <<>>
  /\ jsonl_bytes = 0

\* lines 1367-1384: the consumer's loop body for the lines first..last of
\* the file, as the generator yields them
Consume(first, last) ==
  LET acc == CollectLines([results |-> jsonl_results, bytes |-> jsonl_bytes,
                           aborted |-> FALSE],
                          SubSeq(jsonl_file, first, last))
  IN  /\ yielded' = yielded \o [i \in 1..(last - first + 1) |-> first + i - 1]
      /\ jsonl_results' = acc.results
      /\ jsonl_bytes' = acc.bytes

\* lines 1290-1302: an attempt that fails after k lines were yielded (k = 0
\* also for a status other than 200); the except clause keeps the error and
\* the loop goes to the next attempt, which opens the stream anew; after
\* the last attempt the error is raised (lines 1303-1304) and the consumer
\* leaves its loop (lines 1398-1400)
JsonlAttemptFails ==
  /\ jsonl_pc = "attempt"
  /\ \E k \in 0..Len(jsonl_file) : Consume(1, k)
  /\ IF jsonl_attempt < stream_attempts
     THEN /\ jsonl_attempt' = jsonl_attempt + 1
          /\ jsonl_pc' = "attempt"
     ELSE /\ jsonl_pc' = "raised"
          /\ UNCHANGED jsonl_attempt
  /\ UNCHANGED <<jsonl_file, notJsonl>>

\* lines 1290-1299: an attempt that yields every line and returns
JsonlAttemptCompletes ==
  /\ jsonl_pc = "attempt"
  /\ Consume(1, Len(jsonl_file))
  /\ jsonl_pc' = "done"
  /\ UNCHANGED <<jsonl_file, jsonl_attempt, notJsonl>>

UtilIdle ==
  HttpIdle /\ ExpandIdle /\ StreamIdle /\ NamesIdle /\ JsonlIdle

BatchNext ==
  \/ BatchMissingKey
  \/ BatchFastPath
  \/ BatchNoPrompt
  \/ BatchLoadFailed
  \/ BatchBegin
  \/ BatchLineTooLarge
  \/ BatchEmitLine
  \/ BatchFinish

KeyNext == KeyEncode \/ KeyDecode

\* the packer alone
\* handler, the generation handlers and the image upload are not running
OthersIdle == HandlerIdle /\ GenIdle /\ UploadIdle /\ UtilIdle

InitBatch == KeyIdle /\ BatchInit /\ CleanupIdle /\ FetchIdle /\ OthersIdle

SpecBatch == InitBatch /\ [][BatchNext]_vars

\* the key codec alone
InitKey == KeyInit /\ BatchIdle /\ CleanupIdle /\ FetchIdle /\ OthersIdle

SpecKey == InitKey /\ [][KeyNext]_vars

\* the cleanup handler alone
InitCleanup == KeyIdle /\ BatchIdle /\ CleanupInit /\ FetchIdle /\ OthersIdle

SpecCleanup == InitCleanup /\ [][CleanupNext]_vars

\* the packer's loop alone (lines 251-317), entered with n images loaded
\* from URLs and m prompts, every budget at its largest; a flush succeeds
\* or raises (no unnamed job, no staging file left behind)
InitSlots ==
  /\ KeyIdle /\ CleanupIdle /\ FetchIdle /\ OthersIdle
  /\ batch_pc = "loop"
  /\ \E n \in 1..MaxSlotImages :
       inline_images = FromUrls([n |-> n, big |-> 0])
  /\ \E m \in 1..MaxSlotPrompts : expanded_prompts = [k \in 1..m |-> k]
  /\ aspect_ratios \in RatioLists
  /\ num_variations \in 1..MaxVariations
  /\ MAX_JSONL_BYTES = LargeBudget
  /\ MAX_REQUESTS = MaxLineBudget
  /\ gcs_client_for_resources = FALSE
  /\ slot = 0
  /\ ratio_pos = 1
  /\ variation = 0
  /\ request_keys = <<>>
  /\ current_lines = <<>>
  /\ current_size = 0
  /\ request_count = 0
  /\ batch_names = <<>>
  /\ src_files = <<>>
  /\ chunk_summaries = <<>>
  /\ resource_jsonl_gcs_urls = <<>>
  /\ batch_response = NoResponse
  /\ soft_faults = MaxSoftFaults
  /\ chunk_files = <<>>
  /\ staging = {}
  /\ remote_files = <<>>
  /\ remote_jobs = <<>>
  /\ remove_errors = 0
  /\ preuploaded_jsonl_files = <<>>

SlotsNext == BatchEmitLine \/ BatchFinish

SpecSlots == InitSlots /\ [][SlotsNext]_vars

\* the collector alone, on an empty bucket
CollectorAlone ==
  /\ KeyIdle /\ BatchIdle /\ FetchInit /\ OthersIdle
  /\ cleanup_pc = "idle"
  /\ cleanup_input = [group_id |-> FALSE, job_ids |-> <<>>, gcs_config |-> "none",
                      api_key |-> FALSE, purge_gemini_all |-> FALSE,
                      allow_purge |-> FALSE]
  /\ cleanup_handles = NoHandles
  /\ deleted_gcs = 0
  /\ deleted_files = 0
  /\ matched_files = 0
  /\ matched_batches = 0
  /\ deleted_batches = 0
  /\ cleanup_response = NoResponse
  /\ bucket = {}
  /\ gemini_files = InitialFiles
  /\ gemini_batches = BatchHandles
  /\ gcs_delete_calls = 0
  /\ file_delete_calls = <<>>
  /\ batch_delete_calls = <<>>
  /\ list_calls = 0

InitFetch == CollectorAlone /\ keep_outputs = FALSE

SpecFetch == InitFetch /\ [][FetchNext]_vars

\* the collector invoked twice with the same input of at most two job
\* handles, storage configured
InitRefetch ==
  /\ CollectorAlone
  /\ keep_outputs = TRUE
  /\ fetch_input.api_key
  /\ fetch_input.batch_names # <<>>
  /\ Len(fetch_input.batch_names) <= 2
  /\ fetch_input.gcs_config # "none"
  /\ ~fetch_input.save_response_jsonl_to_gcs

RefetchNext ==
  \/ FetchBegin
  \/ FetchJob
  \/ FetchReturn
  \/ FetchUpload
  \/ FetchAgain

SpecRefetch == InitRefetch /\ [][RefetchNext]_vars

\* handle_automatic_mode alone
InitAutomatic ==
  /\ KeyIdle /\ BatchIdle /\ CleanupIdle /\ FetchIdle
  /\ HandlerIdle /\ UploadIdle /\ UtilIdle
  /\ gen_pc = "start"
  /\ gen_input \in {inp \in GenInputs : inp.mode = "automatic"}
  /\ GenFresh

AutomaticNext == GenReject \/ GenListImages \/ GenProcessImage \/ GenReturn

SpecAutomatic == InitAutomatic /\ [][AutomaticNext]_vars

\* the image upload of handle_automatic_mode_batch alone
InitUpload ==
  /\ KeyIdle /\ BatchIdle /\ CleanupIdle /\ FetchIdle
  /\ HandlerIdle /\ GenIdle /\ UtilIdle
  /\ UploadInit

UploadNext ==
  UploadAcquire \/ UploadDone \/ UploadRaise \/ GatherReturn \/ GatherFailed

SpecUpload == InitUpload /\ [][UploadNext]_vars

\* http_get_with_retry alone
InitHttp ==
  /\ KeyIdle /\ BatchIdle /\ CleanupIdle /\ FetchIdle
  /\ HandlerIdle /\ GenIdle /\ UploadIdle
  /\ HttpInit /\ ExpandIdle /\ StreamIdle /\ NamesIdle
  /\ JsonlIdle

HttpNext == HttpAttempt \/ HttpExhausted

SpecHttp == InitHttp /\ [][HttpNext]_vars

\* expand_prompt_template alone
InitExpand ==
  /\ KeyIdle /\ BatchIdle /\ CleanupIdle /\ FetchIdle
  /\ HandlerIdle /\ GenIdle /\ UploadIdle
  /\ HttpIdle /\ ExpandInit /\ StreamIdle /\ NamesIdle
  /\ JsonlIdle

ExpandNext == ExpandEmpty \/ ExpandNoGroup \/ ExpandBuild

SpecExpand == InitExpand /\ [][ExpandNext]_vars

\* generate_image_sync alone
InitStream ==
  /\ KeyIdle /\ BatchIdle /\ CleanupIdle /\ FetchIdle
  /\ HandlerIdle /\ GenIdle /\ UploadIdle
  /\ HttpIdle /\ ExpandIdle /\ StreamInit /\ NamesIdle
  /\ JsonlIdle

StreamNext ==
  GisBlankPrompt \/ GisOpenStream \/ GisChunk \/ GisStreamError \/ GisNoImage

SpecStream == InitStream /\ [][StreamNext]_vars

\* the writers of generated images and the folder listing
InitNames ==
  /\ KeyIdle /\ BatchIdle /\ CleanupIdle /\ FetchIdle
  /\ HandlerIdle /\ GenIdle /\ UploadIdle
  /\ HttpIdle /\ ExpandIdle /\ StreamIdle /\ NamesInit
  /\ JsonlIdle

NamesNext ==
  \/ WriteAutomatic
  \/ WriteSemi
  \/ WriteDocs
  \/ WriteTextImage
  \/ WriteFetch
  \/ ListFolder

SpecNames == InitNames /\ [][NamesNext]_vars

\* one download of handle_fetch_results_mode alone
InitJsonl ==
  /\ KeyIdle /\ BatchIdle /\ CleanupIdle /\ FetchIdle
  /\ HandlerIdle /\ GenIdle /\ UploadIdle
  /\ HttpIdle /\ ExpandIdle /\ StreamIdle /\ NamesIdle
  /\ JsonlInit

JsonlNext == JsonlAttemptFails \/ JsonlAttemptCompletes

SpecJsonl == InitJsonl /\ [][JsonlNext]_vars

\* handler: a job of any mode is received
InitHandler ==
  /\ KeyIdle /\ BatchIdle /\ CleanupIdle /\ FetchIdle /\ GenIdle /\ UploadIdle
  /\ UtilIdle
  /\ handler_pc = "received"
  /\ mode \in ModeInputs
  /\ handler_response = NoResponse

HandlerNext ==
  \/ HandlerGenerate
  \/ HandlerBatch
  \/ HandlerFetch
  \/ HandlerCleanup
  \/ HandlerInvalidMode
  \/ HandlerReturn
  \/ HandlerRaise
  \/ BatchMissingKey
  \/ BatchFastPath
  \/ BatchNoPrompt
  \/ BatchLoadFailed
  \/ BatchBegin
  \/ BatchLineTooLarge
  \/ BatchEmitLine
  \/ BatchFinish
  \/ CleanupSkip
  \/ CleanupGcs
  \/ CleanupNoApiKey
  \/ CleanupClientFails
  \/ CleanupPurgeRefused
  \/ CleanupPurgeAll
  \/ CleanupStrict
  \/ FetchReject
  \/ FetchBegin
  \/ FetchJob
  \/ FetchReturn
  \/ FetchUpload
  \/ GenReject
  \/ GenListImages
  \/ GenTextBegin
  \/ GenProcessImage
  \/ GenProcessImagePrompts
  \/ GenTextIteration
  \/ GenReturn

SpecHandler == InitHandler /\ [][HandlerNext]_vars

(***************************************************************************)
(* Claims about the packer (specification SpecBatch).                      *)
(***************************************************************************)
\* serialized size of a sequence of lines: UTF-8 length + 1 separator each
RECURSIVE SerializedSize(_)
SerializedSize(lines) ==
  IF Len(lines) = 0 THEN 0
  ELSE (lines[1].bytes + 1) + SerializedSize(Tail(lines))

\* C1: every chunk handed to flush_chunk (the buffer at any moment, and
\* every chunk file written) has a serialized size of at most
\* MAX_JSONL_BYTES.
C1_ChunkWithinByteBudget ==
  batch_pc \in {"loop", "returned", "raised"} =>
    /\ SerializedSize(current_lines) <= MAX_JSONL_BYTES
    /\ \A c \in 1..Len(chunk_files) :
         SerializedSize(chunk_files[c].lines) <= MAX_JSONL_BYTES

\* C1 witness: a second chunk was flushed after a chunk of two lines that
\* the byte budget (not the line budget) closed
C1_Witness ==
  /\ Len(chunk_files) >= 2
  /\ Len(chunk_files[1].lines) >= 2
  /\ Len(chunk_files[1].lines) < MAX_REQUESTS
  /\ batch_pc = "returned"

\* the keys of slot x ratio x variation, iterated once in loop order
ExpectedKeys ==
  LET R == Len(aspect_ratios)
      V == num_variations
  IN  [i \in 1..(total_slots * R * V) |->
         LET s == (i - 1) \div (R * V)
             r == ((i - 1) \div V) % R
             v == (i - 1) % V
         IN  BuildKey(aspect_ratios[r + 1], s % Len(expanded_prompts),
                      inline_images[(s % Len(inline_images)) + 1].index, v)]

RECURSIVE ConcatKeys(_)
ConcatKeys(chunks) ==
  IF Len(chunks) = 0 THEN <<>>
  ELSE [k \in 1..Len(chunks[1].lines) |-> chunks[1].lines[k].key]
         \o ConcatKeys(Tail(chunks))

\* C2: when the handler returns batch_submitted, the keys of the uploaded
\* chunks, concatenated in flush order, are exactly the returned
\* request_keys, which are the keys of slot x ratio x variation iterated once.
C2_ChunksCoverRequests ==
  (batch_pc = "returned" /\ batch_response.status = "batch_submitted") =>
    /\ ConcatKeys(remote_files) = batch_response.request_keys
    /\ ConcatKeys(chunk_files) = batch_response.request_keys
    /\ batch_response.request_keys = ExpectedKeys
    /\ current_lines = <<>>

\* C2 witness: a submission of at least three requests in at least two chunks
C2_Witness ==
  /\ batch_pc = "returned"
  /\ batch_response.status = "batch_submitted"
  /\ Len(batch_response.request_keys) >= 3
  /\ Len(remote_files) >= 2

\* C3: no two request lines emitted in one submission carry the same key.
C3_KeysUnique ==
  \A i, j \in 1..Len(request_keys) :
    i # j => request_keys[i] # request_keys[j]

\* a submission of exactly one request, whose line exceeds the byte budget
SingleOversizedRequest ==
  /\ Len(inline_images) = 1
  /\ Len(expanded_prompts) = 1
  /\ Len(aspect_ratios) = 1
  /\ num_variations = 1
  /\ Len(BuildKey(aspect_ratios[1], 0, inline_images[1].index, 0))
       + inline_images[1].bytes + expanded_prompts[1] + 1 > MAX_JSONL_BYTES

\* C4: a single request larger than the byte budget makes the handler
\* return failed, naming the image index, and no chunk is written, uploaded
\* or turned into a batch job.
C4_OversizedSingleRequestFails ==
  (batch_pc \in {"returned", "raised"} /\ SingleOversizedRequest) =>
    /\ batch_pc = "returned"
    /\ batch_response.status = "failed"
    /\ batch_response.error = "Single request too large for JSONL chunking"
    /\ batch_response.image_index = inline_images[1].index
    /\ chunk_files = <<>>
    /\ staging = {}
    /\ remote_files = <<>>
    /\ remote_jobs = <<>>
    /\ batch_names = <<>>

\* C4 witness: such a submission, for an image whose index is not 0
C4_Witness ==
  /\ batch_pc = "returned"
  /\ SingleOversizedRequest
  /\ inline_images[1].index = 1
  /\ batch_response.status = "failed"

(***************************************************************************)
(* Claims about the request key (specification SpecKey).                   *)
(***************************************************************************)
\* C9: decoding the key the packer builds from (ratio, prompt index, image
\* index, variation) gives back exactly those four values, for every valid
\* ratio string and all non-negative indexes.
C9_KeyRoundTrip ==
  key_pc = "decoded" =>
    /\ key_out.matched
    /\ key_out.ratio = key_in.ratio
    /\ key_out.prompt_index = key_in.prompt_index
    /\ key_out.original_index = key_in.image_index
    /\ key_out.variation = key_in.variation

\* C9 witness: ("16:9", 2, 5, 1) has been encoded and decoded
C9_Witness ==
  /\ key_pc = "decoded"
  /\ key_in = [ratio |-> RatioStr(16, 9), prompt_index |-> 2,
               image_index |-> 5, variation |-> 1]
  /\ key_str = <<"r", "1", "6", "x", "9", "_", "p", "2",
                 "_", "i", "m", "g", "5", "_", "v", "a", "r", "1">>
  /\ key_out.matched

(***************************************************************************)
(* Claims about cleanup (specification SpecCleanup).                       *)
(***************************************************************************)
PurgeWithoutOptIn ==
  cleanup_input.purge_gemini_all /\ ~cleanup_input.allow_purge

\* C5: when cleanup is invoked with purge_all requested and the opt-in not
\* enabled, it performs zero delete operations of any kind: no storage
\* object delete, no remote file delete, no remote job delete (that it
\* returns status failed is the formula of C6).
C5_PurgeWithoutOptInDeletesNothing ==
  PurgeWithoutOptIn =>
    /\ gcs_delete_calls = 0
    /\ file_delete_calls = <<>>
    /\ batch_delete_calls = <<>>

\* C6: whenever purge_all is requested and the opt-in is absent, an
\* invocation of handle_cleanup_group that has ended has returned status
\* failed, for every combination of the other inputs.
C6_PurgeWithoutOptInReturnsFailed ==
  (PurgeWithoutOptIn /\ cleanup_pc \in {"returned", "raised"}) =>
    (cleanup_pc = "returned" /\ cleanup_response.status = "failed")

(***************************************************************************)
(* Claims about the entry point.  handler (lines 41-71) awaits the handler *)
(* of the mode and returns its result, with no try around the call: what   *)
(* the mode's handler raises leaves handler.                                *)
(***************************************************************************)
\* C7: no invocation ends with an exception leaving handler, whatever
\* external call fails.
C7_NoExceptionLeavesHandler ==
  /\ batch_pc # "raised"
  /\ cleanup_pc # "raised"
  /\ fetch_pc # "raised"

(***************************************************************************)
(* Claims about the collector (specification SpecFetch).                   *)
(***************************************************************************)
\* the image parts of the lines that are well-formed image lines, in
\* stream order, as (key, part) pairs
RECURSIVE ImageParts(_)
ImageParts(lines) ==
  IF Len(lines) = 0 THEN <<>>
  ELSE LET line == lines[Len(lines)]
       IN  ImageParts(SubSeq(lines, 1, Len(lines) - 1))
             \o [k \in 1..(IF line.kind = "image" THEN line.parts ELSE 0) |->
                   <<FetchKeys[line.key], k>>]

ItemIds(res) == [k \in 1..Len(res) |-> <<res[k].key, res[k].base64>>]

\* the number of image parts in the lines that are valid JSON
RECURSIVE PartsOfParsedLines(_)
PartsOfParsedLines(lines) ==
  IF Len(lines) = 0 THEN 0
  ELSE (IF lines[1].kind # "malformed" THEN lines[1].parts ELSE 0)
         + PartsOfParsedLines(Tail(lines))

\* C8 as stated: every completed response holds exactly one result per
\* image part of the lines that parse as JSON.
C8_ResultsAreImagePartsOfParsedLines ==
  (fetch_pc = "returned" /\ fetch_response.status = "completed") =>
    Len(fetch_response.results) = PartsOfParsedLines(streamed)

\* C8 (amended): lines that fail to parse are skipped without ending the
\* collection: the items collected from the streams (results before the
\* upload stage, and the returned results when no storage is configured)
\* are exactly the image parts of the lines for which parsing and
\* extraction succeed, in stream order.
C8_CollectedAreImagePartsOfGoodLines ==
  /\ fetch_pc = "jobs" => ItemIds(results) = ImageParts(streamed)
  /\ (fetch_pc = "returned" /\ fetch_response.status = "completed"
        /\ fetch_input.gcs_config = "none") =>
       ItemIds(fetch_response.results) = ImageParts(streamed)

\* C8 witness: one stream delivered a malformed line and then a valid
\* single-image line; the response holds exactly one item
C8_Witness ==
  /\ fetch_pc = "returned"
  /\ fetch_input.gcs_config = "none"
  /\ Len(response_files) = 1
  /\ Len(streamed) = 2
  /\ streamed[1].kind = "malformed"
  /\ streamed[2].kind = "image" /\ streamed[2].parts = 1
  /\ fetch_response.status = "completed"
  /\ Len(fetch_response.results) = 1

\* C10: in every response of handle_fetch_results_mode no two entries of
\* results carry the same destination URL.
C10_NoTwoResultsShareUrl ==
  (fetch_pc = "returned" /\ fetch_response.status = "completed") =>
    \A i, j \in 1..Len(fetch_response.results) :
      (/\ i # j
       /\ "gcs_url" \in DOMAIN fetch_response.results[i]
       /\ "gcs_url" \in DOMAIN fetch_response.results[j]) =>
        fetch_response.results[i].gcs_url # fetch_response.results[j].gcs_url

\* C10 witness: two jobs each returned a line with the same key, storage is
\* configured, and the response holds one entry for the shared URL
C10_Witness ==
  /\ fetch_pc = "returned"
  /\ fetch_input.gcs_config # "none"
  /\ Len(response_files) = 2
  /\ Len(streamed) = 2
  /\ streamed[1].kind = "image" /\ streamed[2].kind = "image"
  /\ streamed[1].parts = 1 /\ streamed[2].parts = 1
  /\ streamed[1].key = streamed[2].key
  /\ put_log # <<>>
  /\ Len(fetch_response.results) = 1
  /\ "gcs_url" \in DOMAIN fetch_response.results[1]

(***************************************************************************)
(* Claims about the collector invoked twice (specification SpecRefetch).   *)
(***************************************************************************)
Urls(res) == [k \in 1..Len(res) |-> res[k].gcs_url]

StatusOf(resp) == IF "status" \in DOMAIN resp THEN resp.status ELSE "absent"

\* C13: every response handler returns, whatever the mode, carries a status
\* that is one of completed, failed, batch_submitted.
C13_EveryResponseCarriesKnownStatus ==
  handler_pc = "returned" =>
    StatusOf(handler_response) \in {"completed", "failed", "batch_submitted"}

NoRepeat(calls) ==
  \A i, j \in 1..Len(calls) : i # j => calls[i] # calls[j]

MirrorFailed ==
  /\ gcs_client_for_resources
  /\ Len(chunk_files') = Len(chunk_files) + 1
  /\ resource_jsonl_gcs_urls' = resource_jsonl_gcs_urls

\* C17: when the mirror upload of a chunk's request file fails, the flush
\* still uploads the chunk and creates its job, does not raise, and a
\* submission that returns then returns batch_submitted with that job's
\* handle.
C17_MirrorFailureDoesNotAbort ==
  [][MirrorFailed =>
       /\ Len(remote_files') = Len(remote_files) + 1
       /\ Len(remote_jobs') = Len(remote_jobs) + 1
       /\ batch_names' = Append(batch_names, Len(remote_jobs'))
       /\ batch_pc' # "raised"
       /\ batch_pc' = "returned" =>
            /\ batch_response'.status = "batch_submitted"
            /\ batch_response'.batch_job_names = batch_names']_vars

\* C17 witness: a submission of two chunks returned batch_submitted with
\* two job handles although one of the two mirror uploads failed
C17_Witness ==
  /\ batch_pc = "returned"
  /\ batch_response.status = "batch_submitted"
  /\ gcs_client_for_resources
  /\ Len(chunk_files) = 2
  /\ Len(resource_jsonl_gcs_urls) = 1
  /\ Len(batch_response.batch_job_names) = 2

\* C18: whatever the number of images and the interleaving of the upload
\* tasks, at most max_concurrent of them are inside the semaphore (between
\* acquiring and releasing it) at any moment.
C18_AtMostMaxConcurrentInside ==
  /\ upload_tasks["inside"] <= max_concurrent
  /\ upload_pc # "idle" => semaphore = max_concurrent - upload_tasks["inside"]

\* C18 witness: max_concurrent tasks are inside and another one is waiting
C18_Witness ==
  /\ upload_tasks["inside"] = max_concurrent
  /\ upload_tasks["waiting"] >= 1
  /\ semaphore = 0

\* the records of the response that name image idx
RecordsOf(idx) ==
  SelectSeq(gen_response.results,
            LAMBDA r : "original_index" \in DOMAIN r /\ r.original_index = idx)

\* C19: when the download, the generation (or the upload) fails for the
\* images of a set F, handle_automatic_mode still returns completed, with
\* num_variations success records for every image outside F and one error
\* record naming the image for every image in F, whatever the order in
\* which the tasks end; no task failure leaves the handler as an exception.
C19_FailuresStayWithTheirImage ==
  /\ gen_pc = "raised" => gen_done = {}
  /\ (gen_pc = "returned" /\ gen_done # {}) =>
       /\ gen_response.status = "completed"
       /\ Len(gen_response.results) =
            Cardinality(gen_failed)
              + gen_input.num_variations
                  * (gen_input.images - Cardinality(gen_failed))
       /\ \A k \in 1..gen_input.images :
            LET recs == RecordsOf(k - 1)
            IN  IF k \in gen_failed
                THEN /\ Len(recs) = 1
                     /\ "error" \in DOMAIN recs[1]
                ELSE /\ Len(recs) = gen_input.num_variations
                     /\ \A v \in 1..Len(recs) :
                          /\ "error" \notin DOMAIN recs[v]
                          /\ recs[v].variation = v - 1

\* C19 witness: of two images with two variations each the first failed and
\* the second did not: one error record, then two success records
C19_Witness ==
  /\ gen_pc = "returned"
  /\ gen_input.mode = "automatic"
  /\ gen_input.images = 2
  /\ gen_input.num_variations = 2
  /\ gen_failed = {1}
  /\ Len(gen_response.results) = 3
  /\ "error" \in DOMAIN gen_response.results[1]
  /\ gen_response.results[3].variation = 1

\* the prompt input of a generation handler is missing or empty
PromptMissing(inp) ==
  CASE inp.mode = "automatic" -> AutomaticPrompt(inp) \in {"missing", "blank"}
    [] inp.mode = "text-image" -> TextPromptList(inp) = <<>>
    [] OTHER -> PromptsList(inp) = <<>>

\* C20: a generation or submission handler called by handler with a
\* missing or empty prompt input returns failed and has called neither
\* storage nor the model API.
C20_MissingPromptFailsBeforeAnyCall ==
  /\ (handler_pc \in {"returned", "raised"} /\ mode \in GenModes
        /\ PromptMissing(gen_input)) =>
       /\ handler_pc = "returned"
       /\ StatusOf(handler_response) = "failed"
       /\ storage_calls = 0
       /\ model_calls = 0
  /\ (handler_pc = "returned" /\ mode \in BatchModes
        /\ handler_response = Failed("Prompt is required")) =>
       /\ chunk_files = <<>>
       /\ remote_files = <<>>
       /\ remote_jobs = <<>>

\* C25: whatever the line budget MAX_REQUESTS, every chunk written holds at
\* most MAX_REQUESTS lines, and a submission that returns batch_submitted
\* has flushed the lines left in the buffer as its last chunk.
C25_ChunkWithinLineBudget ==
  /\ batch_pc \in {"loop", "returned", "raised"} =>
       \A c \in 1..Len(chunk_files) :
         Len(chunk_files[c].lines) <= MAX_REQUESTS
  /\ (batch_pc = "returned" /\ batch_response.status = "batch_submitted"
        /\ request_keys # <<>>) =>
       /\ current_lines = <<>>
       /\ chunk_files[Len(chunk_files)].lines[
             Len(chunk_files[Len(chunk_files)].lines)].key
            = request_keys[Len(request_keys)]

\* C28: in a cleanup by explicit handles a delete that raises does not end
\* the loop: the handler calls delete on every handle given (normalised,
\* each once), returns completed, and reports as deleted_gemini_files and
\* deleted_batches the numbers of remote files and jobs its calls removed;
\* deleted_gcs is the number of storage objects its deletes removed.
C28_FailedDeleteDoesNotStopCleanup ==
  (cleanup_pc = "returned" /\ cleanup_handles # NoHandles) =>
    /\ cleanup_response.status = "completed"
    /\ file_delete_calls =
         Dedup([k \in 1..Len(cleanup_handles.batch_src_files) |->
                  normalize_file_uri(cleanup_handles.batch_src_files[k])]
               \o [k \in 1..Len(cleanup_handles.response_files) |->
                     normalize_file_uri(cleanup_handles.response_files[k])])
    /\ batch_delete_calls = Dedup(cleanup_handles.batch_names)
    /\ cleanup_response.deleted_gemini_files
         = Cardinality(InitialFiles \ gemini_files)
    /\ cleanup_response.deleted_batches
         = Cardinality(BatchHandles \ gemini_batches)
    /\ cleanup_response.deleted_gcs = Cardinality(InitialBucket \ bucket)
    /\ InitialFiles \ gemini_files \subseteq Range(file_delete_calls)
    /\ BatchHandles \ gemini_batches \subseteq Range(batch_delete_calls)

\* C28 witness: the delete of the first of two file handles raised and the
\* second file was deleted all the same, a storage delete raised as well,
\* and the response counts one file, both jobs and the objects removed
C28_Witness ==
  /\ cleanup_pc = "returned"
  /\ cleanup_handles # NoHandles
  /\ StatusOf(cleanup_response) = "completed"
  /\ Len(file_delete_calls) = 2
  /\ file_delete_calls[1] \in gemini_files
  /\ file_delete_calls[2] \notin gemini_files
  /\ cleanup_response.deleted_gemini_files = 1
  /\ Len(batch_delete_calls) = 2
  /\ cleanup_response.deleted_batches = 2
  /\ gcs_delete_calls > cleanup_response.deleted_gcs
  /\ cleanup_response.deleted_gcs >= 1

\* C29: a submission given request-file handles creates one job per handle,
\* in the order given, each from the normalised handle (files/<name>), and
\* expands no prompt, loads no image, packs no line and uploads no file;
\* the batch_src_files it returns is the list it was given.
C29_FastPathOnlyCreatesJobs ==
  preuploaded_jsonl_files # <<>> =>
    /\ expanded_prompts = <<>>
    /\ inline_images = <<>>
    /\ request_keys = <<>>
    /\ chunk_files = <<>>
    /\ chunk_summaries = <<>>
    /\ remote_files = <<>>
    /\ Len(remote_jobs) <= Len(preuploaded_jsonl_files)
    /\ \A k \in 1..Len(remote_jobs) :
         remote_jobs[k].src =
           [form |-> "files", name |-> preuploaded_jsonl_files[k].name]
    /\ batch_pc = "returned" =>
         /\ Len(remote_jobs) = Len(preuploaded_jsonl_files)
         /\ batch_response.status = "batch_submitted"
         /\ batch_response.batch_src_files = preuploaded_jsonl_files
         /\ batch_response.request_keys = <<>>

\* C29 witness: two handles given, the first a download URL, the second a
\* bare name; two jobs created from files/b and files/a, and the two
\* handles returned as given
C29_Witness ==
  /\ batch_pc = "returned"
  /\ Len(preuploaded_jsonl_files) = 2
  /\ preuploaded_jsonl_files[1].form = "http"
  /\ preuploaded_jsonl_files[2].form = "bare"
  /\ Len(remote_jobs) = 2
  /\ remote_jobs[1].src = [form |-> "files", name |-> "b"]
  /\ remote_jobs[2].src = [form |-> "files", name |-> "a"]
  /\ batch_response.batch_src_files = preuploaded_jsonl_files

\* C30: when a packed submission returns batch_submitted after flushing k
\* chunks, batch_job_names and batch_src_files both hold k entries, the i-th
\* job is the one created from the i-th source file, and the chunk index
\* given to the i-th chunk (display names, mirror path) is its position,
\* counted from 0, so no two chunks share an index.
C30_OneJobAndOneIndexPerChunk ==
  (batch_pc = "returned" /\ preuploaded_jsonl_files = <<>>
     /\ StatusOf(batch_response) = "batch_submitted") =>
    /\ Len(batch_response.batch_job_names) = Len(chunk_files)
    /\ Len(batch_response.batch_src_files) = Len(chunk_files)
    /\ Len(chunk_summaries) = Len(chunk_files)
    /\ \A i \in 1..Len(chunk_files) :
         /\ i <= Len(batch_response.batch_job_names)
              => remote_jobs[batch_response.batch_job_names[i]].src
                   = batch_response.batch_src_files[i]
         /\ chunk_summaries[i].chunk_idx = i - 1

\* C21: http_get_with_retry called with attempts = N issues at most N GET
\* requests and none after a response with status 200, which it returns;
\* after the failed attempt k < N it sleeps delay * k (so the waits grow
\* strictly), after the N-th it does not sleep; it raises only when N
\* attempts were made and all failed (a status other than 200 or an
\* HTTPError), and then it does raise.
C21_RetryBoundedWithBackoff ==
  http_pc \in {"loop", "returned", "raised"} =>
    /\ Len(get_log) <= attempts
    /\ \A k \in 1..(Len(get_log) - 1) : get_log[k].status # 200
    /\ http_pc = "returned" <=>
         (get_log # <<>> /\ get_log[Len(get_log)].status = 200)
    /\ http_pc = "returned" =>
         http_outcome = [kind |-> "response", attempt |-> Len(get_log),
                         status |-> 200, error |-> "none"]
    /\ Len(sleep_log) =
         Cardinality({k \in 1..Len(get_log) :
                        get_log[k].status # 200 /\ k < attempts})
    /\ \A k \in 1..Len(sleep_log) : sleep_log[k] = delay * k
    /\ \A k \in 1..(Len(sleep_log) - 1) : sleep_log[k] < sleep_log[k + 1]
    /\ http_pc = "raised" =>
         /\ Len(get_log) = attempts
         /\ http_outcome.kind \in {"HTTPError", "ValueError"}
    /\ (http_pc = "loop" /\ Len(get_log) = attempts) =>
         (ENABLED HttpExhausted /\ ~ENABLED HttpAttempt)

\* C21 witness: three attempts allowed, a 503, a connection error and a 404
\* in turn; sleeps of delay and 2 * delay, none after the third attempt,
\* and the call raised
C21_Witness ==
  /\ http_pc = "raised"
  /\ attempts = 3
  /\ delay = 2
  /\ Len(get_log) = 3
  /\ get_log[1].status = 503
  /\ get_log[2].error = "ConnectError"
  /\ get_log[3].status = 404
  /\ sleep_log = <<2, 4>>

\* C27: when http_get_with_retry has used up its attempts, the error it
\* raises reports the last attempt made: the status of its response, or the
\* failure it ended with.
C27_ErrorReportsLastAttempt ==
  (http_pc = "raised" /\ attempts >= 1) =>
    /\ http_outcome.attempt = Len(get_log)
    /\ http_outcome.status = get_log[Len(get_log)].status
    /\ http_outcome.error = get_log[Len(get_log)].error

\* the number of combinations of one option of each of the groups g, g+1, ...
RECURSIVE Combinations(_, _)
Combinations(opts, g) ==
  IF g > Len(opts) THEN 1 ELSE Len(opts[g]) * Combinations(opts, g + 1)

\* the option of group g in the combination numbered i (from 0), the
\* first group counting slowest
ChoiceAt(opts, i, g) ==
  ((i \div Combinations(opts, g + 1)) % Len(opts[g])) + 1

\* the text of a combination: the segments with the chosen options between
RECURSIVE Rendered(_, _, _, _)
Rendered(segs, opts, choice, g) ==
  IF g > Len(opts) THEN segs[g]
  ELSE segs[g] \o opts[g][choice[g]] \o Rendered(segs, opts, choice, g + 1)

\* the template put together again from the segments and the group texts
RECURSIVE Rebuilt(_, _, _)
Rebuilt(segs, texts, g) ==
  IF g > Len(texts) THEN segs[g]
  ELSE segs[g] \o <<"{">> \o texts[g] \o <<"}">> \o Rebuilt(segs, texts, g + 1)

RECURSIVE WithoutEmptyGroups(_)
WithoutEmptyGroups(t) ==
  LET at == {k \in 1..(Len(t) - 1) : t[k] = "{" /\ t[k + 1] = "}"}
      k == CHOOSE j \in at : \A h \in at : j <= h
  IN  IF at = {} THEN t
      ELSE SubSeq(t, 1, k - 1) \o WithoutEmptyGroups(SubSeq(t, k + 2, Len(t)))

\* C24: an empty group {} in the template is a group with the one option
\* "": every string returned has the empty string in its place, so the
\* list returned is the one returned for the template without the group.
C24_EmptyGroupYieldsEmptyString ==
  (expand_pc = "returned" /\ WithoutEmptyGroups(template) # <<>>) =>
    expanded = expand_prompt_template(WithoutEmptyGroups(template))

\* C26: generate_image_sync returns the bytes of the first part with
\* inline image data in the order of the stream (chunk by chunk, part by
\* part) and takes no chunk from the stream after the one that holds it;
\* when the stream ends with no such part it raises, and in no case does
\* it open the stream a second time.
C26_FirstImageReturnedAtOnce ==
  LET withImage == {c \in 1..Len(stream) :
                      \E p \in 1..Len(stream[c]) : stream[c][p].kind = "image"}
      c1 == CHOOSE c \in withImage : \A d \in withImage : c <= d
      p1 == CHOOSE p \in 1..Len(stream[c1]) :
              /\ stream[c1][p].kind = "image"
              /\ \A q \in 1..(p - 1) : stream[c1][q].kind # "image"
  IN  /\ stream_calls <= 1
      /\ withImage # {} => consumed <= c1
      /\ gis_pc = "returned" =>
           /\ withImage # {}
           /\ consumed = c1
           /\ gis_outcome = [kind |-> "bytes", data |-> stream[c1][p1].data]
      /\ (gis_pc = "raised" /\ gis_outcome.kind = "ValueError: no image data") =>
           /\ withImage = {}
           /\ consumed = Len(stream)
      /\ (gis_pc \in {"returned", "raised"} /\ ~prompt_blank
            /\ withImage = {} /\ stream_error_at = 0) =>
           /\ gis_pc = "raised"
           /\ gis_outcome.kind = "ValueError: no image data"
           /\ stream_calls = 1

\* C26 witness: the first chunk holds a text part and then an image part,
\* the second chunk another image part; the bytes of the first chunk's
\* image were returned and the second chunk was never taken
C26_Witness ==
  /\ gis_pc = "returned"
  /\ Len(stream) = 2
  /\ Len(stream[1]) = 2
  /\ stream[1][1].kind = "text"
  /\ stream[1][2].kind = "image"
  /\ Len(stream[2]) >= 1
  /\ stream[2][1].kind = "image"
  /\ consumed = 1
  /\ gis_outcome.data = stream[1][2].data

\* C22: no object a handler wrote as a generated image (automatic,
\* semi-automatic, docs semi-automatic, text-image, fetch_results) is among
\* the names a folder listing returns.
C22_OutputsNeverListed ==
  names_pc = "listed" => listed \cap outputs = {}

(***************************************************************************)
(* Claims about job handles without an output file and about what the      *)
(* collector leaves in place (specifications SpecRefetch and SpecFetch).   *)
(***************************************************************************)
\* the output-file handles of the first n jobs that have one attached
RECURSIVE ResolvedHandles(_)
ResolvedHandles(n) ==
  IF n = 0 THEN <<>>
  ELSE IF output_files[n].attached
       THEN Append(ResolvedHandles(n - 1),
                   normalize_file_uri(fetch_input.batch_names[n]))
       ELSE ResolvedHandles(n - 1)

\* the lines of the output files attached to the first n jobs
RECURSIVE LinesOfAttached(_)
LinesOfAttached(n) ==
  IF n = 0 THEN <<>>
  ELSE LinesOfAttached(n - 1)
         \o (IF output_files[n].attached THEN output_files[n].lines ELSE <<>>)

\* C31: a job handle whose job has no output file attached is skipped: it
\* adds nothing to response_files and no line of it is read (so no result
\* item comes from it), the handles after it are processed, and the handler
\* returns status completed with one response_files entry per job that has
\* an output file.
C31_JobWithoutOutputIsSkipped ==
  /\ (fetch_pc = "jobs" /\ job_pos - 1 <= Len(output_files)) =>
       /\ response_files = ResolvedHandles(job_pos - 1)
       /\ streamed = LinesOfAttached(job_pos - 1)
       /\ ItemIds(results) = ImageParts(LinesOfAttached(job_pos - 1))
  /\ fetch_pc = "returned" =>
       /\ job_pos = Len(fetch_input.batch_names) + 1
       /\ Len(output_files) = Len(fetch_input.batch_names)
       /\ fetch_response.status = "completed"
       /\ fetch_response.response_files =
            ResolvedHandles(Len(fetch_input.batch_names))
       /\ streamed = LinesOfAttached(Len(fetch_input.batch_names))

\* C31 witness: of two job handles the first has no output file and the
\* second has one with an image line; the response is completed and holds
\* the second job's file and item only
C31_Witness ==
  /\ fetch_pc = "returned"
  /\ fetch_run = 1
  /\ Len(fetch_input.batch_names) = 2
  /\ ~output_files[1].attached
  /\ output_files[2].attached
  /\ Len(output_files[2].lines) = 1
  /\ output_files[2].lines[1].kind = "image"
  /\ fetch_response.status = "completed"
  /\ fetch_response.response_files =
       <<normalize_file_uri(fetch_input.batch_names[2])>>
  /\ Len(fetch_response.results) = 1

\* C32: the collector deletes no remote file and no remote batch job: after
\* every invocation the remote files and jobs are what they were, no delete
\* call was made, and the completed response returns every job handle
\* passed in (batch_job_names) and every resolved output-file handle
\* (response_files), all of which still exist remotely.
C32_CollectorDeletesNothingAndReturnsHandles ==
  /\ gemini_files = InitialFiles
  /\ gemini_batches = BatchHandles
  /\ file_delete_calls = <<>>
  /\ batch_delete_calls = <<>>
  /\ (fetch_pc = "returned" /\ fetch_response.status = "completed") =>
       /\ fetch_response.batch_job_names = fetch_input.batch_names
       /\ fetch_response.response_files = response_files
       /\ Len(response_files) <= Len(fetch_input.batch_names)
       /\ Range(fetch_response.batch_job_names) \subseteq gemini_batches

\* C32 witness: two job handles were passed in, one output file was
\* resolved, and the response names both jobs and the file
C32_Witness ==
  /\ fetch_pc = "returned"
  /\ fetch_response.status = "completed"
  /\ Len(fetch_input.batch_names) = 2
  /\ Len(fetch_response.batch_job_names) = 2
  /\ Len(fetch_response.response_files) = 1
  /\ Len(fetch_response.results) >= 1
  /\ gemini_batches = BatchHandles

\* C34: every remote batch job created during an invocation of
\* handle_automatic_batch_mode that packs requests into chunks (and given
\* a name by the service) has its handle in the batch_job_names the
\* invocation returns: no invocation
\* ends, by a failed response or by an exception, after creating a job
\* whose handle it does not return.
C34_EveryCreatedJobIsReturned ==
  (batch_pc \in {"returned", "raised"} /\ preuploaded_jsonl_files = <<>>) =>
    \A j \in 1..Len(remote_jobs) :
      remote_jobs[j].named =>
        /\ batch_pc = "returned"
        /\ "batch_job_names" \in DOMAIN batch_response
        /\ j \in Range(batch_response.batch_job_names)

\* C35: with storage configured, the result items decoded from distinct
\* request keys of one submission go to distinct destination paths: when
\* every line read carries one image under a key of the packer's form and
\* every upload succeeds, the response holds as many results as there are
\* distinct keys among the lines.
C35_DistinctKeysDistinctPaths ==
  (/\ fetch_pc = "returned"
   /\ fetch_response.status = "completed"
   /\ fetch_input.gcs_config # "none"
   /\ upload_errors = 0
   /\ \A k \in 1..Len(streamed) :
        /\ streamed[k].kind = "image"
        /\ streamed[k].parts = 1
        /\ KeyFields[streamed[k].key].matched) =>
    Len(fetch_response.results) =
      Cardinality({streamed[k].key : k \in 1..Len(streamed)})

\* C33: a second invocation for the same job handles uploads every decoded
\* image again and overwrites the object at its path: in the upload stage
\* of the second invocation, when no upload fails, every destination
\* returned is written by that invocation, with or without
\* output_gcs_prefix.
C33_SecondRunOverwritesEveryObject ==
  [][(/\ fetch_run = 2
      /\ fetch_pc = "jobs"
      /\ fetch_pc' = "returned"
      /\ upload_errors' = 0) =>
       \A k \in 1..Len(fetch_response'.results) :
         \E i \in (Len(put_log) + 1)..Len(put_log') :
           put_log'[i].path = fetch_response'.results[k].gcs_url]_vars

\* C40: a failure while looking up or downloading one job handle does not
\* end the invocation: the handler leaves the loop over the job handles
\* only after the last handle, so that the results of the other jobs are
\* returned with status completed.
C40_FailureOfOneJobLeavesOthers ==
  ~(fetch_pc = "raised" /\ job_pos <= Len(fetch_input.batch_names))

(***************************************************************************)
(* Claim about a download that is retried (specification SpecJsonl).       *)
(***************************************************************************)
\* C36: each line of a job's output file adds to results and to total_bytes
\* at most once per invocation, also when the download fails part-way and
\* is retried: no line is yielded twice, and the items and bytes counted
\* never exceed those of the file read once.
C36_EachLineCountedOnce ==
  LET once == CollectLines([results |-> <<>>, bytes |-> 0, aborted |-> FALSE],
                           jsonl_file)
  IN  /\ \A i \in 1..Len(jsonl_file) :
           Cardinality({k \in 1..Len(yielded) : yielded[k] = i}) <= 1
      /\ Len(jsonl_results) <= Len(once.results)
      /\ jsonl_bytes <= once.bytes

(***************************************************************************)
(* Claims about the storage objects of a job and their cleanup             *)
(* (specification SpecCleanup).                                            *)
(***************************************************************************)
\* the objects the upload helpers wrote for the job ids of the invocation
ObjectsOfNamedJobs ==
  {ObjectPath(cfg, cleanup_input.job_ids[k], <<"a">>) :
     cfg \in {"plain", "prefixed"}, k \in 1..Len(cleanup_input.job_ids)}

\* C37: handle_cleanup_group invoked with job_ids S deletes no storage
\* object that was written for a job id outside S, also when one job id is
\* a string prefix of another.
C37_DeletesOnlyObjectsOfNamedJobs ==
  (InitialBucket \ bucket) \subseteq ObjectsOfNamedJobs

\* C38: every object written for job J under storage config C is deleted by
\* a handle_cleanup_group invoked with job_ids containing J and the same C,
\* with or without a path_prefix, when no delete call fails.
C38_CleanupDeletesObjectsOfJob ==
  (/\ cleanup_pc \in {"gemini", "returned"}
   /\ cleanup_input.group_id
   /\ cleanup_input.gcs_config # "none"
   /\ gcs_delete_calls = deleted_gcs) =>
    \A k \in 1..Len(cleanup_input.job_ids) :
      ObjectPath(cleanup_input.gcs_config, cleanup_input.job_ids[k], <<"a">>)
        \notin bucket

(***************************************************************************)
(* Claim about total_generated (specification SpecAutomatic).              *)
(***************************************************************************)
\* C39: in every completed response of a generation handler
\* total_generated is the number of entries of results that carry a
\* generated image (gcs_url or image); error records are not counted.
C39_TotalGeneratedCountsImages ==
  (gen_pc = "returned" /\ StatusOf(gen_response) = "completed") =>
    gen_response.total_generated =
      Cardinality({k \in 1..Len(gen_response.results) :
                     \/ "gcs_url" \in DOMAIN gen_response.results[k]
                     \/ "image" \in DOMAIN gen_response.results[k]})

=============================================================================
